---------------------------- MODULE Spec2Model ----------------------------
(***************************************************************************)
(* Word-search grid generation: the Intersecting generator                 *)
(* (src/src/utils/MultiWordMatrixGenerator.js, generateWordSearchGrid) and *)
(* the Free generator (src/src/data/languages.js,                          *)
(* generateFreeWordSearchGrid), as a state machine.  The recursive search  *)
(* and the recursive fill are run on explicit stacks of frames, one        *)
(* action per step of the code.  Rows and columns are 0-based as in the    *)
(* source; a word is a sequence of one-character strings.                  *)
(***************************************************************************)
EXTENDS Integers, Sequences, FiniteSets, TLC

(***************************************************************************)
(* Bounds of the model.                                                    *)
(***************************************************************************)
\* width * height of a valid grid is at most MaxCells
MaxCells == 4
\* length of a raw input word (before trimming) built from letters
MaxLen == 2
\* number of entries of the words array
MaxWords == 2
\* explicit numeric seeds are 0..MaxSeed
MaxSeed == 0
\* explicit maxIterations options are 0..MaxBudget
MaxBudget == 1
\* calls without a seed (Math.random) are explored on grids of at most this many cells
MaxUnseededCells == 2

(***************************************************************************)
(* Program constants.                                                      *)
(***************************************************************************)
\* options.maxIterations ?? 50000
DefaultMaxIterations == 50000
\* onProgress is reported when iterations % 1000 === 0
ProgressEvery == 1000

\* the value null of a grid cell
NULL == "null"
\* options.seed undefined / options.maxIterations undefined
NoSeed == -1
Absent == -1

(***************************************************************************)
(* Strings: String.prototype.toUpperCase and trim on the characters used.  *)
(***************************************************************************)
ToUpperChar(ch) ==
  CASE ch = "a" -> "A"
    [] ch = "b" -> "B"
    [] ch = "c" -> "C"
    [] OTHER -> ch

ToUpper(s) == [i \in 1..Len(s) |-> ToUpperChar(s[i])]

IsSpace(ch) == ch = " "

RECURSIVE TrimLeft(_)
TrimLeft(s) ==
  IF s = <<>> THEN <<>>
  ELSE IF IsSpace(Head(s)) THEN TrimLeft(Tail(s)) ELSE s

RECURSIVE TrimRight(_)
TrimRight(s) ==
  IF s = <<>> THEN <<>>
  ELSE IF IsSpace(s[Len(s)]) THEN TrimRight(SubSeq(s, 1, Len(s) - 1)) ELSE s

Trim(s) == TrimRight(TrimLeft(s))

\* words.map(w => String(w).trim().toUpperCase()).filter(w => w.length > 0)
CleanWords(words) ==
  LET mapped == [i \in 1..Len(words) |-> ToUpper(Trim(words[i]))]
      nonEmpty(w) == Len(w) > 0
  IN SelectSeq(mapped, nonEmpty)

\* Set.prototype.add on a Set kept as its insertion-ordered sequence
SetAdd(s, x) == IF \E i \in 1..Len(s) : s[i] = x THEN s ELSE Append(s, x)

RECURSIVE AddChars(_, _)
AddChars(s, w) == IF w = <<>> THEN s ELSE AddChars(SetAdd(s, Head(w)), Tail(w))

RECURSIVE AddLetterEntries(_, _)
AddLetterEntries(s, lettersArr) ==
  IF lettersArr = <<>> THEN s
  ELSE LET ch == ToUpper(Head(lettersArr))
       IN AddLetterEntries(IF Len(ch) = 1 THEN SetAdd(s, ch[1]) ELSE s, Tail(lettersArr))

\* variant: the letters of the words are left out
AddWordLetters_None(s, wordsArr) == s

RECURSIVE AddWordLetters(_, _)
AddWordLetters(s, wordsArr) ==
  IF wordsArr = <<>> THEN s
  ELSE AddWordLetters(AddChars(s, Head(wordsArr)), Tail(wordsArr))

\* variant: the caller's letters are left out
normalizeAndExpandLetters_WordsOnly(lettersArr, wordsArr) == AddWordLetters(<<>>, wordsArr)

\* the allowed letter Set, in insertion order
normalizeAndExpandLetters(lettersArr, wordsArr) ==
  AddWordLetters(AddLetterEntries(<<>>, lettersArr), wordsArr)

SeqToSet(s) == {s[i] : i \in 1..Len(s)}

\* variant: the length of the first word only
MaxLength_First(ws) == IF ws = <<>> THEN 0 ELSE Len(Head(ws))

RECURSIVE MaxLength(_)
MaxLength(ws) ==
  IF ws = <<>> THEN 0
  ELSE LET m == MaxLength(Tail(ws)) IN IF Len(Head(ws)) > m THEN Len(Head(ws)) ELSE m

Max(a, b) == IF a > b THEN a ELSE b
Min(a, b) == IF a < b THEN a ELSE b

\* requiredCount.get(w): multiplicity of the text w among the clean words
RequiredCount(ws, w) == Cardinality({i \in 1..Len(ws) : ws[i] = w})

\* [...new Set(cleanWords)]: the unique words in first-occurrence order
RECURSIVE Dedupe(_, _)
Dedupe(acc, ws) == IF ws = <<>> THEN acc ELSE Dedupe(SetAdd(acc, Head(ws)), Tail(ws))

UniqueWords(ws) == Dedupe(<<>>, ws)

\* stable insertion of index x into the index sequence idx, ascending by key
RECURSIVE InsertStable(_, _, _)
InsertStable(idx, x, key) ==
  IF idx = <<>> THEN <<x>>
  ELSE IF key[x] < key[idx[Len(idx)]]
       THEN Append(InsertStable(SubSeq(idx, 1, Len(idx) - 1), x, key), idx[Len(idx)])
       ELSE Append(idx, x)

RECURSIVE SortedIndices(_, _)
SortedIndices(n, key) ==
  IF n = 0 THEN <<>> ELSE InsertStable(SortedIndices(n - 1, key), n, key)

\* Array.prototype.sort (stable): s reordered by ascending key, key[i] the key of s[i]
StableSortByKey(s, key) ==
  LET idx == SortedIndices(Len(s), key) IN [i \in 1..Len(s) |-> s[idx[i]]]

\* cleanWords.map((w, i) => ({id: i, word: w, len: w.length})).sort((a, b) => b.len - a.len)
WordObjs(ws) ==
  LET objs == [i \in 1..Len(ws) |-> [id |-> i - 1, word |-> ws[i], len |-> Len(ws[i])]]
  IN StableSortByKey(objs, [i \in 1..Len(ws) |-> 0 - objs[i].len])


(***************************************************************************)
(* State.                                                                  *)
(***************************************************************************)
VARIABLES
  strategy,     \* "intersecting" | "free": the generator that is called ("none": not yet)
  input,        \* the arguments: words, letters, width, height, seed, tieBreaker, maxIterations, onProgress
  pc,           \* "call" | "search" | "place" (free) | "done"
  callNo,       \* 1 for the first call, 2 for the repeated call with the same arguments
  firstResult,  \* <<>> or <<result of call 1>>
  result,       \* <<>> or <<the value returned or the error thrown>>
  rng,          \* state of the seeded generator, NoSeed when rand is Math.random
  cleanWords, allowed, wordObjs,
  grid,         \* rows of cells, each NULL or a letter
  currentPlacements,     \* the Map id -> placement, as its entries in insertion order
  currentIntersections,
  iterations, cancelled,
  best,         \* <<>> (null) or <<record>>
  bestPartial,  \* <<>> (null) or <<record>>
  stack,        \* frames of the active search calls, innermost last
  fillStack,    \* frames of the active tryFill calls, innermost last
  empties, currentCounts,   \* locals of fillEmptiesAvoidingExtras
  progress,     \* the fractions passed to onProgress, as <<numerator, denominator>>
  wordsSorted, placements, placed,   \* Free generator: the sorted words, the placements, their number
  searchCalls,  \* history: number of search calls entered
  workCalls,    \* history: number of search calls that went past the budget check
  posted,       \* generation worker: the messages posted by self.postMessage, in order
  ctl           \* the word-search controller (<<>> when a generator is called directly)

vars == <<strategy, input, pc, callNo, firstResult, result, rng, cleanWords, allowed,
          wordObjs, grid, currentPlacements, currentIntersections, iterations, cancelled,
          best, bestPartial, stack, fillStack, empties, currentCounts, progress,
          wordsSorted, placements, placed, searchCalls, workCalls, posted, ctl>>

width == input.width
height == input.height

(***************************************************************************)
(* The random source.  makeRNG(seed) is Math.random without a seed and a   *)
(* mulberry32 generator otherwise; the generator is modelled with the same *)
(* structure (a Weyl counter and a xor-shift-multiply mix) on RngBits bits *)
(* instead of 32.  A value rand() = out / RngMod is kept as its numerator. *)
(***************************************************************************)
\* word size of the modelled generator
RngBits == 8
RngMod == 2 ^ RngBits
\* a += 0x6D2B79F5
WeylIncrement == 1831565813

RECURSIVE BitXor(_, _)
BitXor(a, b) ==
  IF a = 0 /\ b = 0 THEN 0
  ELSE (((a % 2) + (b % 2)) % 2) + 2 * BitXor(a \div 2, b \div 2)

RECURSIVE BitOr(_, _)
BitOr(a, b) ==
  IF a = 0 /\ b = 0 THEN 0
  ELSE (IF a % 2 = 1 \/ b % 2 = 1 THEN 1 ELSE 0) + 2 * BitOr(a \div 2, b \div 2)

\* x >>> n, the shift distance scaled from 32 bits to RngBits
ShiftRight(x, n) == x \div (2 ^ ((n * RngBits) \div 32))

\* Math.imul on RngBits bits
Imul(a, b) == (a * b) % RngMod

\* one call of the closure returned by mulberry32(a): the new a and the output
mulberry32(a) ==
  LET a1 == (a + WeylIncrement) % RngMod
      t1 == Imul(BitXor(a1, ShiftRight(a1, 15)), BitOr(a1, 1))
      t2 == BitXor(t1, (t1 + Imul(BitXor(t1, ShiftRight(t1, 7)), BitOr(t1, 61 % RngMod))) % RngMod)
  IN [state |-> a1, out |-> BitXor(t2, ShiftRight(t2, 14))]

\* makeRNG(seed): seed >>> 0 for a numeric seed, Math.random without one
makeRNG(seed) == IF seed = NoSeed THEN NoSeed ELSE seed % RngMod

\* Math.floor(rand() * n): the possible values with the generator state after the draw
FloorRand(n, g) ==
  IF g = NoSeed THEN {[val |-> j, rng |-> g] : j \in 0..(n - 1)}
  ELSE LET m == mulberry32(g) IN {[val |-> (m.out * n) \div RngMod, rng |-> m.state]}

\* randomChoice(arr)
randomChoice(arr, g) ==
  {[val |-> arr[o.val + 1], rng |-> o.rng] : o \in FloorRand(Len(arr), g)}

Swap(a, i, j) == [a EXCEPT ![i] = a[j], ![j] = a[i]]

\* shuffleInPlace(a), the loop from 0-based index i down to 1
RECURSIVE ShuffleFrom(_, _, _)
ShuffleFrom(a, i, g) ==
  IF i < 1 THEN {[arr |-> a, rng |-> g]}
  ELSE UNION {ShuffleFrom(Swap(a, i + 1, o.val + 1), i - 1, o.rng) : o \in FloorRand(i + 1, g)}

\* variant: an order drawn from Math.random whatever the seed
shuffleInPlace_Unseeded(a, g) == {[arr |-> x.arr, rng |-> g] : x \in ShuffleFrom(a, Len(a) - 1, NoSeed)}

shuffleInPlace(a, g) == ShuffleFrom(a, Len(a) - 1, g)

(***************************************************************************)
(* The grid.                                                               *)
(***************************************************************************)
EmptyGrid(w, h) == [r \in 1..h |-> [c \in 1..w |-> NULL]]

Cell(g, r, c) == g[r + 1][c + 1]

SetCell(g, r, c, v) == [g EXCEPT ![r + 1][c + 1] = v]

\* the cell covered by letter k (0-based) of a placement
CoveredCell(p, k) ==
  IF p.dir = "H" THEN [r |-> p.row, c |-> p.col + k] ELSE [r |-> p.row + k, c |-> p.col]

\* variant: a candidate is accepted whatever letters its cells hold
Candidate_AnyLetters(word, g, r, c, dir) ==
  LET L == Len(word)
      p == [row |-> r, col |-> c, dir |-> dir]
      cellAt(k) == Cell(g, CoveredCell(p, k).r, CoveredCell(p, k).c)
  IN [row |-> r, col |-> c, dir |-> dir,
      ok |-> TRUE,
      score |-> Cardinality({k \in 0..(L - 1) : cellAt(k) = word[k + 1]})]

\* one candidate of enumeratePlacements: the inner k loop
Candidate(word, g, r, c, dir) ==
  LET L == Len(word)
      p == [row |-> r, col |-> c, dir |-> dir]
      cellAt(k) == Cell(g, CoveredCell(p, k).r, CoveredCell(p, k).c)
  IN [row |-> r, col |-> c, dir |-> dir,
      ok |-> \A k \in 0..(L - 1) : cellAt(k) = NULL \/ cellAt(k) = word[k + 1],
      score |-> Cardinality({k \in 0..(L - 1) : cellAt(k) = word[k + 1]})]

\* variant: the last start column and the last start row are left out (c < width - L)
StartPositions_OffByOne(L, w, h) ==
  LET nh == IF w - L > 0 THEN h * (w - L) ELSE 0
      nv == IF L > 1 /\ h - L > 0 THEN (h - L) * w ELSE 0
      hs == [i \in 1..nh |-> [row |-> (i - 1) \div (w - L), col |-> (i - 1) % (w - L), dir |-> "H"]]
      vs == [i \in 1..nv |-> [row |-> (i - 1) \div w, col |-> (i - 1) % w, dir |-> "V"]]
  IN hs \o vs

\* the start positions in the order of the loops: horizontal, then vertical for L > 1
StartPositions(L, w, h) ==
  LET nh == IF w - L + 1 > 0 THEN h * (w - L + 1) ELSE 0
      nv == IF L > 1 /\ h - L + 1 > 0 THEN (h - L + 1) * w ELSE 0
      hs == [i \in 1..nh |-> [row |-> (i - 1) \div (w - L + 1), col |-> (i - 1) % (w - L + 1), dir |-> "H"]]
      vs == [i \in 1..nv |-> [row |-> (i - 1) \div w, col |-> (i - 1) % w, dir |-> "V"]]
  IN hs \o vs

\* the valid placements with their scores, before the tie-break keys and the sort
ValidPlacements(word, g, w, h) ==
  LET pos == StartPositions(Len(word), w, h)
      cands == [i \in 1..Len(pos) |-> Candidate(word, g, pos[i].row, pos[i].col, pos[i].dir)]
      isOk(x) == x.ok
      oks == SelectSeq(cands, isOk)
  IN [i \in 1..Len(oks) |-> [row |-> oks[i].row, col |-> oks[i].col, dir |-> oks[i].dir, score |-> oks[i].score]]

\* distToCenter(p), as 4 * (dr^2 + dc^2): the same order as Math.hypot(dr, dc)
distToCenter(p, L, w, h) ==
  LET rr2 == IF p.dir = "H" THEN 2 * p.row ELSE 2 * p.row + (L - 1)
      cc2 == IF p.dir = "H" THEN 2 * p.col + (L - 1) ELSE 2 * p.col
      dr == rr2 - (h - 1)
      dc == cc2 - (w - 1)
  IN dr * dr + dc * dc

\* the keys p._tie = rand() of n placements, drawn in order from the seeded generator
RECURSIVE RandKeys(_, _)
RandKeys(n, g) ==
  IF n = 0 THEN [keys |-> <<>>, rng |-> g]
  ELSE LET m == mulberry32(g)
           rest == RandKeys(n - 1, m.state)
       IN [keys |-> <<m.out>> \o rest.keys, rng |-> rest.rng]

\* variant: the list is ordered by the tie-break key alone
SortPlacements_TieOnly(ps, tie) ==
  StableSortByKey(ps, [i \in 1..Len(ps) |-> tie[i]])

\* placements.sort((a, b) => (b.score - a.score) || (a._tie - b._tie))
SortPlacements(ps, tie) ==
  LET base == 1 + RngMod + 4 * (width + height) * (width + height)
  IN StableSortByKey(ps, [i \in 1..Len(ps) |-> (0 - ps[i].score) * base + tie[i]])

\* the orders a sort by score and distinct real keys from Math.random can give
TieOrders(ps) ==
  LET n == Len(ps)
      byScore(q) == \A i, j \in 1..n : i < j => ps[q[i]].score >= ps[q[j]].score
  IN {[i \in 1..n |-> ps[q[i]]] : q \in {x \in Permutations(1..n) : byScore(x)}}

\* enumeratePlacements(word): the possible sorted lists with the generator state after
enumeratePlacements(word, g, tieMode, rg) ==
  LET ps == ValidPlacements(word, g, width, height)
  IN IF tieMode = "center"
     THEN {[plist |-> SortPlacements(ps, [i \in 1..Len(ps) |-> distToCenter(ps[i], Len(word), width, height)]),
            rng |-> rg]}
     ELSE IF rg = NoSeed
     THEN {[plist |-> o, rng |-> rg] : o \in TieOrders(ps)}
     ELSE LET k == RandKeys(Len(ps), rg)
          IN {[plist |-> SortPlacements(ps, k.keys), rng |-> k.rng]}

\* placeWord(word, p): the grid after, and the cells newly written
RECURSIVE PlaceFrom(_, _, _, _, _)
PlaceFrom(word, p, k, g, newly) ==
  IF k = Len(word) THEN [grid |-> g, newly |-> newly]
  ELSE LET cl == CoveredCell(p, k)
       IN IF Cell(g, cl.r, cl.c) = NULL
          THEN PlaceFrom(word, p, k + 1, SetCell(g, cl.r, cl.c, word[k + 1]), Append(newly, cl))
          ELSE PlaceFrom(word, p, k + 1, g, newly)

\* variant: every covered cell is recorded as newly written
placeWord_AllCovered(word, p, g) ==
  [grid |-> PlaceFrom(word, p, 0, g, <<>>).grid,
   newly |-> [k \in 1..Len(word) |-> CoveredCell(p, k - 1)]]

placeWord(word, p, g) == PlaceFrom(word, p, 0, g, <<>>)

\* undo(newly)
RECURSIVE undo(_, _)
undo(newly, g) ==
  IF newly = <<>> THEN g
  ELSE undo(Tail(newly), SetCell(g, Head(newly).r, Head(newly).c, NULL))

\* countOccurrencesStrictForWord(word): forward matches in g, NULL breaks a match
countOccurrencesStrictForWord(word, g, w, h) ==
  LET L == Len(word)
      hor == {rc \in (0..(h - 1)) \X (0..(w - L)) :
                \A k \in 0..(L - 1) : Cell(g, rc[1], rc[2] + k) = word[k + 1]}
      ver == IF L > 1
             THEN {rc \in (0..(h - L)) \X (0..(w - 1)) :
                     \A k \in 0..(L - 1) : Cell(g, rc[1] + k, rc[2]) = word[k + 1]}
             ELSE {}
  IN Cardinality(hor) + Cardinality(ver)

\* variant: the check after a commit always passes
countsWithinLimits_Always(g, ws) == TRUE

\* countsWithinLimits()
countsWithinLimits(g, ws) ==
  \A i \in 1..Len(ws) :
    countOccurrencesStrictForWord(ws[i], g, Len(g[1]), Len(g)) <= RequiredCount(ws, ws[i])

\* grid.map(row => row.map(ch => ch ?? randomChoice([...allowed]))): the cells in
\* row-major order from cell number k, each null cell replaced by a drawn letter
RECURSIVE FillNullsFrom(_, _, _, _)
FillNullsFrom(g, k, al, rg) ==
  LET w == Len(g[1])
      r == k \div w
      c == k % w
  IN IF k = Len(g) * w THEN {[rows |-> g, rng |-> rg]}
     ELSE IF Cell(g, r, c) # NULL THEN FillNullsFrom(g, k + 1, al, rg)
     ELSE UNION {FillNullsFrom(SetCell(g, r, c, o.val), k + 1, al, o.rng) : o \in randomChoice(al, rg)}

\* variant: the null cells are left as they are
FillNulls_Skip(g, al, rg) == {[rows |-> g, rng |-> rg]}

FillNulls(g, al, rg) == FillNullsFrom(g, 0, al, rg)

(***************************************************************************)
(* fillEmptiesAvoidingExtras: helpers.                                     *)
(***************************************************************************)
\* windowsThroughCell(r, c, L)
windowsThroughCell(r, c, L, w, h) ==
  LET hStartMin == Max(0, c - (L - 1))
      hStartMax == Min(c, w - L)
      anyH == IF hStartMin <= hStartMax THEN hStartMax - hStartMin + 1 ELSE 0
      vStartMin == Max(0, r - (L - 1))
      vStartMax == Min(r, h - L)
      anyV == IF vStartMin <= vStartMax THEN vStartMax - vStartMin + 1 ELSE 0
  IN IF L = 1 THEN anyH ELSE anyH + anyV

RECURSIVE SumOver(_, _)
SumOver(f, n) == IF n = 0 THEN 0 ELSE f[n] + SumOver(f, n - 1)

\* the sort weight of an empty cell: over the lengths L, windows * number of unique words of length L
CellWeight(cl, uniq, w, h) ==
  SumOver([i \in 1..Len(uniq) |-> windowsThroughCell(cl.r, cl.c, Len(uniq[i]), w, h)], Len(uniq))

\* the empty cells in row-major order, then sorted most dangerous first
SortedEmpties(g, uniq) ==
  LET w == Len(g[1])
      h == Len(g)
      all == [k \in 1..(w * h) |-> [r |-> (k - 1) \div w, c |-> (k - 1) % w]]
      isNull(cl) == Cell(g, cl.r, cl.c) = NULL
      es == SelectSeq(all, isNull)
  IN StableSortByKey(es, [i \in 1..Len(es) |-> 0 - CellWeight(es[i], uniq, w, h)])

\* variant: only the horizontal windows through the cell are counted
countNewOccurrencesAtCell_HorizontalOnly(word, r, c, ch, g) ==
  LET L == Len(word)
      w == Len(g[1])
  IN Cardinality({s \in Max(0, c - (L - 1))..Min(c, w - L) :
                    /\ word[c - s + 1] = ch
                    /\ \A k \in 0..(L - 1) : k = c - s \/ Cell(g, r, s + k) = word[k + 1]})

\* countNewOccurrencesAtCell(word, r, c, ch)
countNewOccurrencesAtCell(word, r, c, ch, g) ==
  LET L == Len(word)
      w == Len(g[1])
      h == Len(g)
      hor == {s \in Max(0, c - (L - 1))..Min(c, w - L) :
                /\ word[c - s + 1] = ch
                /\ \A k \in 0..(L - 1) : k = c - s \/ Cell(g, r, s + k) = word[k + 1]}
      ver == IF L > 1
             THEN {s \in Max(0, r - (L - 1))..Min(r, h - L) :
                     /\ word[r - s + 1] = ch
                     /\ \A k \in 0..(L - 1) : k = r - s \/ Cell(g, s + k, c) = word[k + 1]}
             ELSE {}
  IN Cardinality(hor) + Cardinality(ver)

\* the deltas of tryFill for letter ch at cell cl: per unique word, the new occurrences
FillDeltas(cl, ch, g, uniq) ==
  [i \in 1..Len(uniq) |-> countNewOccurrencesAtCell(uniq[i], cl.r, cl.c, ch, g)]

\* variant: every letter is accepted
FillLetterOk_Always(deltas, counts, uniq, ws) == TRUE

\* ok of tryFill: no word's count would exceed its requirement
FillLetterOk(deltas, counts, uniq, ws) ==
  \A i \in 1..Len(uniq) :
    deltas[i] = 0 \/ counts[i] + deltas[i] <= RequiredCount(ws, uniq[i])

(***************************************************************************)
(* Frames and results.                                                     *)
(***************************************************************************)
NoWord == [id |-> -1, word |-> <<>>, len |-> 0]

\* a call search(remaining), about to execute its first statement; entry is a
\* history field: the grid, the placement map and the score when the call began
SearchFrame(remaining) ==
  [remaining |-> remaining, at |-> "entry", chosen |-> NoWord, rest |-> <<>>,
   plist |-> <<>>, idx |-> 0, newly |-> <<>>, entry |-> <<>>]

\* a call tryFill(idx), about to execute its first statement
FillFrame(idx) == [idx |-> idx, at |-> "entry", order |-> <<>>, li |-> 0, deltas |-> <<>>]

Pop(s) == SubSeq(s, 1, Len(s) - 1)
Top(s) == s[Len(s)]
SetTop(s, f) == [s EXCEPT ![Len(s)] = f]

Returned(g, ps, partial) ==
  [kind |-> "return", grid |-> g, placements |-> ps, partial |-> partial, message |-> ""]

Thrown(msg) ==
  [kind |-> "throw", grid |-> <<>>, placements |-> <<>>, partial |-> "absent", message |-> msg]

\* options.maxIterations ?? 50000
maxIterations == IF input.maxIterations = Absent THEN DefaultMaxIterations ELSE input.maxIterations

\* options.tieBreaker || 'random'
tieMode == input.tieBreaker

\* Array.isArray(words), Array.isArray(letters)
WordsIsArray == input.wordsIsArray
LettersIsArray == input.lettersIsArray

\* variant: only the signs of width and height are tested
ValidDims_Positive(w, h) == w > 0 /\ h > 0

\* Number.isInteger(width) && Number.isInteger(height) && width > 0 && height > 0
ValidDims(w, h) == input.widthIsInteger /\ input.heightIsInteger /\ w > 0 /\ h > 0

(***************************************************************************)
(* The calls that are explored.                                            *)
(***************************************************************************)
RawAlphabet == {"a", "B"}

\* raw words: letters in either case, a blank word and a padded word
RawWordPool ==
  UNION {[1..n -> RawAlphabet] : n \in 1..MaxLen} \cup {<<" ">>, <<" ", "b">>}

WordLists == UNION {[1..n -> RawWordPool] : n \in 0..MaxWords}

\* letters arrays: none; a lower-case letter and an entry that is not one character
LettersPool == {<<>>, << <<"c">>, <<"a", "b">> >>}

Dims ==
  {d \in (0..MaxCells) \X (0..MaxCells) :
     \/ d[1] * d[2] \in 1..MaxCells
     \/ d \in {<<0, 1>>, <<1, 0>>}}

Seeds(d) == (0..MaxSeed) \cup (IF d[1] * d[2] <= MaxUnseededCells THEN {NoSeed} ELSE {})

Budgets == {Absent} \cup (0..MaxBudget)

\* calls whose arguments have the expected shape: arrays and integer dimensions
ShapedInputs(strat) ==
  IF strat = "intersecting"
  THEN {[words |-> ws, letters |-> ls, width |-> d[1], height |-> d[2],
         seed |-> sd, tieBreaker |-> tb, maxIterations |-> mi,
         wordsIsArray |-> TRUE, lettersIsArray |-> TRUE,
         widthIsInteger |-> TRUE, heightIsInteger |-> TRUE,
         caller |-> "direct", encoding |-> "none"] :
          ws \in WordLists, ls \in LettersPool,
          d \in Dims, sd \in (0..MaxSeed) \cup {NoSeed}, tb \in {"random", "center"},
          mi \in Budgets}
  ELSE {[words |-> ws, letters |-> ls, width |-> d[1], height |-> d[2],
         seed |-> NoSeed, tieBreaker |-> "random", maxIterations |-> Absent,
         wordsIsArray |-> TRUE, lettersIsArray |-> TRUE,
         widthIsInteger |-> TRUE, heightIsInteger |-> TRUE,
         caller |-> "direct", encoding |-> "none"] :
          ws \in WordLists, ls \in LettersPool, d \in Dims}

\* calls with a malformed argument: words or letters that is not an array (the
\* field then holds no entries), a width or height that is not an integer (a
\* fraction, a string, NaN: the field then holds its integer part), or negative
MalformedDims == {<<1, 1>>, <<2, 1>>, <<0 - 1, 1>>, <<1, 0 - 1>>}

MalformedInputs(strat) ==
  LET all == {[words |-> IF f[1] THEN ws ELSE <<>>, letters |-> <<>>,
               width |-> d[1], height |-> d[2],
               seed |-> IF strat = "intersecting" THEN 0 ELSE NoSeed,
               tieBreaker |-> "random", maxIterations |-> Absent,
               wordsIsArray |-> f[1], lettersIsArray |-> f[2],
               widthIsInteger |-> f[3], heightIsInteger |-> f[4],
               caller |-> "direct", encoding |-> "none"] :
                ws \in {<<>>, << <<"a">> >>}, d \in MalformedDims,
                f \in BOOLEAN \X BOOLEAN \X BOOLEAN \X BOOLEAN}
  IN {x \in all :
        \/ ~(x.wordsIsArray /\ x.lettersIsArray /\ x.widthIsInteger /\ x.heightIsInteger)
        \/ x.width < 0 \/ x.height < 0}

Inputs(strat) == ShapedInputs(strat) \cup MalformedInputs(strat)

\* the encoding option the controls send with a request
Encodings == {"free", "intersections"}

\* request messages to the generation worker: { words, letters, width, height,
\* options: { maxIterations: 50000, encoding } }, no seed, on the small grids
WorkerRequests ==
  {[x EXCEPT !.caller = "worker", !.encoding = e] :
     x \in {y \in Inputs("free") : y.width * y.height <= MaxUnseededCells},
     e \in Encodings}

\* a call of the Intersecting generator that runs through a thousand search
\* calls: four copies of a one-letter word on a 2 x 3 grid, seeded, with a
\* maxIterations option one below a multiple of the reporting period
LongCalls ==
  {[words |-> << <<"a">>, <<"a">>, <<"a">>, <<"a">> >>, letters |-> <<>>,
    width |-> 2, height |-> 3, seed |-> 0, tieBreaker |-> "random",
    maxIterations |-> ProgressEvery - 1,
    wordsIsArray |-> TRUE, lettersIsArray |-> TRUE,
    widthIsInteger |-> TRUE, heightIsInteger |-> TRUE,
    caller |-> "direct", encoding |-> "none"]}

\* a call of the Intersecting generator with a repeated word whose letter also
\* occurs in a longer word: 'aa', 'a', 'a' on a 2 x 1 grid, either tie-break
RepeatedCalls ==
  {[words |-> << <<"a", "a">>, <<"a">>, <<"a">> >>, letters |-> <<>>,
    width |-> 2, height |-> 1, seed |-> 0, tieBreaker |-> tb,
    maxIterations |-> Absent,
    wordsIsArray |-> TRUE, lettersIsArray |-> TRUE,
    widthIsInteger |-> TRUE, heightIsInteger |-> TRUE,
    caller |-> "direct", encoding |-> "none"] : tb \in {"random", "center"}}

\* the state before the call: nothing of the call exists yet
BeforeCall ==
  /\ callNo = 1
  /\ firstResult = <<>>
  /\ result = <<>>
  /\ rng = NoSeed
  /\ cleanWords = <<>>
  /\ allowed = <<>>
  /\ wordObjs = <<>>
  /\ grid = <<>>
  /\ currentPlacements = <<>>
  /\ currentIntersections = 0
  /\ iterations = 0
  /\ cancelled = FALSE
  /\ best = <<>>
  /\ bestPartial = <<>>
  /\ stack = <<>>
  /\ fillStack = <<>>
  /\ empties = <<>>
  /\ currentCounts = <<>>
  /\ progress = <<>>
  /\ wordsSorted = <<>>
  /\ placements = <<>>
  /\ placed = 0
  /\ searchCalls = 0
  /\ workCalls = 0
  /\ posted = <<>>

\* a direct call of one of the generators, or a request message sent to the worker
Init ==
  /\ \/ /\ strategy \in {"intersecting", "free"}
        /\ input \in Inputs(strategy)
                     \cup (IF strategy = "intersecting" THEN LongCalls \cup RepeatedCalls ELSE {})
        /\ strategy = "intersecting" => input.seed \in Seeds(<<input.width, input.height>>)
        /\ pc = "call"
     \/ /\ strategy = "none"
        /\ input \in WorkerRequests
        /\ pc = "request"
  /\ ctl = <<>>
  /\ BeforeCall

callVars == <<strategy, input, callNo, firstResult, ctl>>
normVars == <<cleanWords, allowed, wordObjs>>
searchVars == <<grid, currentPlacements, currentIntersections, iterations, cancelled,
                best, bestPartial, stack>>
fillVars == <<fillStack, empties, currentCounts>>
freeVars == <<wordsSorted, placements, placed>>
histVars == <<searchCalls, workCalls>>

(***************************************************************************)
(* generateWorker.js: self.onmessage.  The handler calls                   *)
(* generateWordSearchGrid with onProgress posting a 'progress' message,    *)
(* then posts 'result', or 'error' when the call threw.                    *)
(***************************************************************************)
ProgressMsg(p) == [type |-> "progress", value |-> p]

TerminalMsg(res) ==
  IF res.kind = "return" THEN [type |-> "result", value |-> <<res>>]
  ELSE [type |-> "error", value |-> <<res.message>>]

\* the messages after msgs are posted; a direct call posts nothing
Post(msgs) == IF input.caller = "worker" THEN posted \o msgs ELSE posted

\* variant: the last progress report is posted after the terminal message
FinishMessages_ProgressLast(res) == <<TerminalMsg(res), ProgressMsg(<<1, 1>>)>>

\* onProgress(1), then the return or the throw
FinishMessages(res) == <<ProgressMsg(<<1, 1>>), TerminalMsg(res)>>

\* the destructuring of e.data and the call generateWordSearchGrid(...)
WorkerOnMessage ==
  /\ pc = "request"
  /\ strategy' = "intersecting"
  /\ pc' = "call"
  /\ UNCHANGED <<input, callNo, firstResult, ctl, posted, result, rng, normVars, searchVars,
                 fillVars, progress, freeVars, histVars>>

(***************************************************************************)
(* generateWordSearchGrid: from the call to the first call of search.      *)
(***************************************************************************)
GenerateStart ==
  /\ pc = "call"
  /\ strategy = "intersecting"
  /\ LET rand == makeRNG(input.seed)
         cw == CleanWords(input.words)
         al == normalizeAndExpandLetters(input.letters, cw)
     IN IF ~WordsIsArray
        THEN /\ result' = <<Thrown("words must be an array of strings.")>>
             /\ pc' = "done"
             /\ rng' = rand
             /\ UNCHANGED <<normVars, searchVars>>
        ELSE IF ~LettersIsArray
        THEN /\ result' = <<Thrown("letters must be an array of strings.")>>
             /\ pc' = "done"
             /\ rng' = rand
             /\ UNCHANGED <<normVars, searchVars>>
        ELSE IF ~ValidDims(width, height)
        THEN /\ result' = <<Thrown("width and height must be positive integers.")>>
             /\ pc' = "done"
             /\ rng' = rand
             /\ UNCHANGED <<normVars, searchVars>>
        ELSE IF cw = <<>>
        THEN IF al = <<>>
             THEN /\ result' = <<Thrown("No words and empty letters; nothing to fill the grid with.")>>
                  /\ pc' = "done"
                  /\ rng' = rand
                  /\ UNCHANGED <<normVars, searchVars>>
             ELSE \E o \in FillNulls(EmptyGrid(width, height), al, rand) :
                    /\ result' = <<Returned(o.rows, <<>>, "absent")>>
                    /\ pc' = "done"
                    /\ rng' = o.rng
                    /\ cleanWords' = cw
                    /\ allowed' = al
                    /\ UNCHANGED <<wordObjs, searchVars>>
        ELSE IF MaxLength(cw) > Max(width, height)
        THEN /\ result' = <<Thrown("The longest word length exceeds max(width, height).")>>
             /\ pc' = "done"
             /\ rng' = rand
             /\ cleanWords' = cw
             /\ allowed' = al
             /\ UNCHANGED <<wordObjs, searchVars>>
        ELSE /\ cleanWords' = cw
             /\ allowed' = al
             /\ wordObjs' = WordObjs(cw)
             /\ grid' = EmptyGrid(width, height)
             /\ stack' = <<SearchFrame(WordObjs(cw))>>
             /\ pc' = "search"
             /\ rng' = rand
             /\ UNCHANGED <<result, currentPlacements, currentIntersections, iterations,
                            cancelled, best, bestPartial>>
  /\ posted' = IF pc' = "done" THEN Post(<<TerminalMsg(result'[1])>>) ELSE posted
  /\ UNCHANGED <<callVars, fillVars, progress, freeVars, histVars>>

(***************************************************************************)
(* search(remaining): the first statements of a call.                      *)
(***************************************************************************)
\* variant: the intersection score does not break a tie of the placed counts
BetterPartial_CountOnly ==
  \/ bestPartial = <<>>
  \/ Len(currentPlacements) > bestPartial[1].placedCount

\* the condition of recordPartial
BetterPartial ==
  \/ bestPartial = <<>>
  \/ Len(currentPlacements) > bestPartial[1].placedCount
  \/ /\ Len(currentPlacements) = bestPartial[1].placedCount
     /\ currentIntersections > bestPartial[1].intersections

\* the grid, the committed placements and the running score at this moment
EntryState ==
  <<[grid |-> grid, placements |-> currentPlacements, intersections |-> currentIntersections]>>

\* recordPartial(): the possible values of bestPartial with the generator state after
recordPartial ==
  IF BetterPartial
  THEN {[bp |-> <<[placementsById |-> currentPlacements,
                   intersections |-> currentIntersections,
                   filledGridRows |-> o.rows,
                   placedCount |-> Len(currentPlacements)]>>,
         rng |-> o.rng] : o \in FillNulls(grid, allowed, rng)}
  ELSE {[bp |-> bestPartial, rng |-> rng]}

SearchEnter ==
  /\ pc = "search"
  /\ stack # <<>>
  /\ Top(stack).at = "entry"
  /\ IF cancelled
     THEN /\ stack' = Pop(stack)
          /\ UNCHANGED <<bestPartial, rng, iterations, cancelled, progress, histVars>>
     ELSE /\ \E o \in recordPartial :
               /\ bestPartial' = o.bp
               /\ rng' = o.rng
          /\ iterations' = iterations + 1
          /\ searchCalls' = searchCalls + 1
          /\ IF iterations > maxIterations
             THEN /\ cancelled' = TRUE
                  /\ stack' = Pop(stack)
                  /\ UNCHANGED <<progress, workCalls>>
             ELSE /\ progress' = IF iterations' % ProgressEvery = 0
                                 THEN Append(progress, <<iterations', maxIterations>>)
                                 ELSE progress
                  /\ stack' = SetTop(stack, [Top(stack) EXCEPT !.at = "body", !.entry = EntryState])
                  /\ workCalls' = workCalls + 1
                  /\ UNCHANGED cancelled
  /\ posted' = IF progress' # progress
                THEN Post(<<ProgressMsg(progress'[Len(progress')])>>)
                ELSE posted
  /\ UNCHANGED <<callVars, pc, result, normVars, grid, currentPlacements,
                 currentIntersections, best, fillVars, freeVars>>

(***************************************************************************)
(* search: remaining.length === 0, the terminal check and the fill.        *)
(***************************************************************************)
\* variant: every count is compared with the number of words of the call
CountsExact_Total(g, ws) ==
  \A i \in 1..Len(ws) :
    countOccurrencesStrictForWord(ws[i], g, Len(g[1]), Len(g)) = Len(ws)

\* every unique word occurs exactly its required number of times in g
CountsExact(g, ws) ==
  \A i \in 1..Len(ws) :
    countOccurrencesStrictForWord(ws[i], g, Len(g[1]), Len(g)) = RequiredCount(ws, ws[i])

\* the terminal check, then fillEmptiesAvoidingExtras up to its call tryFill(0)
SearchTerminal ==
  /\ pc = "search"
  /\ stack # <<>>
  /\ Top(stack).at = "body"
  /\ Top(stack).remaining = <<>>
  /\ LET uniq == UniqueWords(cleanWords)
         es == SortedEmpties(grid, uniq)
         counts == [i \in 1..Len(uniq) |->
                      countOccurrencesStrictForWord(uniq[i], grid, width, height)]
     IN IF ~CountsExact(grid, cleanWords)
        THEN /\ stack' = Pop(stack)
             /\ UNCHANGED fillVars
        ELSE IF es = <<>>
        THEN /\ stack' = SetTop(stack, [Top(stack) EXCEPT !.at = "record"])
             /\ empties' = <<>>
             /\ UNCHANGED <<fillStack, currentCounts>>
        ELSE IF \E i \in 1..Len(uniq) : counts[i] > RequiredCount(cleanWords, uniq[i])
        THEN /\ stack' = Pop(stack)
             /\ UNCHANGED fillVars
        ELSE /\ stack' = SetTop(stack, [Top(stack) EXCEPT !.at = "fill"])
             /\ empties' = es
             /\ currentCounts' = counts
             /\ fillStack' = <<FillFrame(0)>>
  /\ UNCHANGED <<callVars, posted, pc, result, rng, normVars, grid, currentPlacements,
                 currentIntersections, iterations, cancelled, best, bestPartial,
                 progress, freeVars, histVars>>

\* tryFill(idx): the base case and the shuffle of the letters
TryFillEnter ==
  /\ pc = "search"
  /\ fillStack # <<>>
  /\ Top(fillStack).at = "entry"
  /\ IF Top(fillStack).idx = Len(empties)
     THEN \* true is returned through every active tryFill call
          /\ fillStack' = <<>>
          /\ stack' = SetTop(stack, [Top(stack) EXCEPT !.at = "record"])
          /\ UNCHANGED rng
     ELSE \E o \in shuffleInPlace(allowed, rng) :
            /\ fillStack' = SetTop(fillStack,
                 [Top(fillStack) EXCEPT !.at = "loop", !.order = o.arr, !.li = 1])
            /\ rng' = o.rng
            /\ UNCHANGED stack
  /\ UNCHANGED <<callVars, posted, pc, result, normVars, grid, currentPlacements,
                 currentIntersections, iterations, cancelled, best, bestPartial,
                 empties, currentCounts, progress, freeVars, histVars>>

\* tryFill: one iteration of the loop over lettersOrder, or its end (return false)
TryFillLetter ==
  /\ pc = "search"
  /\ fillStack # <<>>
  /\ Top(fillStack).at = "loop"
  /\ LET f == Top(fillStack)
         cl == empties[f.idx + 1]
         uniq == UniqueWords(cleanWords)
     IN IF f.li > Len(f.order)
        THEN /\ fillStack' = Pop(fillStack)
             /\ stack' = IF Len(fillStack) = 1 THEN Pop(stack) ELSE stack
             /\ UNCHANGED <<grid, currentCounts>>
        ELSE LET ch == f.order[f.li]
                 deltas == FillDeltas(cl, ch, grid, uniq)
             IN IF Cell(grid, cl.r, cl.c) # NULL
                   \/ ~FillLetterOk(deltas, currentCounts, uniq, cleanWords)
                THEN /\ fillStack' = SetTop(fillStack, [f EXCEPT !.li = f.li + 1])
                     /\ UNCHANGED <<stack, grid, currentCounts>>
                ELSE /\ grid' = SetCell(grid, cl.r, cl.c, ch)
                     /\ currentCounts' = [i \in 1..Len(uniq) |-> currentCounts[i] + deltas[i]]
                     /\ fillStack' = Append(SetTop(fillStack,
                                        [f EXCEPT !.at = "undo", !.deltas = deltas]),
                                        FillFrame(f.idx + 1))
                     /\ UNCHANGED stack
  /\ UNCHANGED <<callVars, posted, pc, result, rng, normVars, currentPlacements,
                 currentIntersections, iterations, cancelled, best, bestPartial,
                 empties, progress, freeVars, histVars>>

\* tryFill: the undo after tryFill(idx + 1) returned false
TryFillUndo ==
  /\ pc = "search"
  /\ fillStack # <<>>
  /\ Top(fillStack).at = "undo"
  /\ LET f == Top(fillStack)
         cl == empties[f.idx + 1]
     IN /\ currentCounts' = [i \in 1..Len(currentCounts) |-> currentCounts[i] - f.deltas[i]]
        /\ grid' = SetCell(grid, cl.r, cl.c, NULL)
        /\ fillStack' = SetTop(fillStack, [f EXCEPT !.at = "loop", !.li = f.li + 1, !.deltas = <<>>])
  /\ UNCHANGED <<callVars, posted, pc, result, rng, normVars, currentPlacements,
                 currentIntersections, iterations, cancelled, best, bestPartial, stack,
                 empties, progress, freeVars, histVars>>

\* variant: the latest solution replaces the recorded one whatever its score
RecordBest_KeepLast ==
  /\ pc = "search"
  /\ stack # <<>>
  /\ Top(stack).at = "record"
  /\ best' = <<[placementsById |-> currentPlacements,
                intersections |-> currentIntersections,
                filledGridRows |-> grid]>>
  /\ grid' = undo(empties, grid)
  /\ stack' = Pop(stack)
  /\ UNCHANGED <<callVars, posted, pc, result, rng, normVars, currentPlacements,
                 currentIntersections, iterations, cancelled, bestPartial,
                 fillVars, progress, freeVars, histVars>>

\* search: fill.ok, the record of the solution and the undo of the filler
RecordBest ==
  /\ pc = "search"
  /\ stack # <<>>
  /\ Top(stack).at = "record"
  /\ LET record == [placementsById |-> currentPlacements,
                    intersections |-> currentIntersections,
                    filledGridRows |-> grid]
     IN best' = IF best = <<>> \/ record.intersections > best[1].intersections
                THEN <<record>> ELSE best
  /\ grid' = undo(empties, grid)
  /\ stack' = Pop(stack)
  /\ UNCHANGED <<callVars, posted, pc, result, rng, normVars, currentPlacements,
                 currentIntersections, iterations, cancelled, bestPartial,
                 fillVars, progress, freeVars, histVars>>

(***************************************************************************)
(* search: the choice of the next word and the commit/backtrack loop.      *)
(***************************************************************************)
\* the loop over remaining from index i: the possible outcomes
RECURSIVE ChooseFrom(_, _, _, _)
ChooseFrom(remaining, i, rg, st) ==
  IF i > Len(remaining)
  THEN {[dead |-> FALSE, chosenIdx |-> st.chosenIdx, plist |-> st.plist, rng |-> rg]}
  ELSE UNION {
    LET pl == o.plist
        w == remaining[i]
    IN IF Len(pl) = 0
       THEN {[dead |-> TRUE, chosenIdx |-> -1, plist |-> <<>>, rng |-> o.rng]}
       ELSE IF \/ st.chosenIdx = -1
               \/ Len(pl) < st.minCount
               \/ (Len(pl) = st.minCount /\ w.len > st.bestLen)
               \/ (Len(pl) = st.minCount /\ w.len = st.bestLen /\ pl[1].score > st.bestMaxScore)
            THEN ChooseFrom(remaining, i + 1, o.rng,
                   [chosenIdx |-> i, plist |-> pl, minCount |-> Len(pl),
                    bestLen |-> w.len, bestMaxScore |-> pl[1].score])
            ELSE ChooseFrom(remaining, i + 1, o.rng, st)
    : o \in enumeratePlacements(remaining[i].word, grid, tieMode, rg)}

RemoveAt(s, i) == SubSeq(s, 1, i - 1) \o SubSeq(s, i + 1, Len(s))

ChooseWord ==
  /\ pc = "search"
  /\ stack # <<>>
  /\ Top(stack).at = "body"
  /\ Top(stack).remaining # <<>>
  /\ \E o \in ChooseFrom(Top(stack).remaining, 1, rng,
                [chosenIdx |-> -1, plist |-> <<>>, minCount |-> 0, bestLen |-> -1,
                 bestMaxScore |-> -1]) :
       /\ rng' = o.rng
       /\ stack' = IF o.dead
                   THEN Pop(stack)
                   ELSE SetTop(stack, [Top(stack) EXCEPT
                          !.at = "loop",
                          !.chosen = Top(stack).remaining[o.chosenIdx],
                          !.rest = RemoveAt(Top(stack).remaining, o.chosenIdx),
                          !.plist = o.plist,
                          !.idx = 1])
  /\ UNCHANGED <<callVars, posted, pc, result, normVars, grid, currentPlacements,
                 currentIntersections, iterations, cancelled, best, bestPartial,
                 fillVars, progress, freeVars, histVars>>

\* currentPlacements.set(id, v) / currentPlacements.delete(id)
MapSet(m, id, v) ==
  IF \E i \in 1..Len(m) : m[i].id = id
  THEN [i \in 1..Len(m) |-> IF m[i].id = id THEN v ELSE m[i]]
  ELSE Append(m, v)

MapDelete(m, id) ==
  LET keep(e) == e.id # id IN SelectSeq(m, keep)

\* the loop over chosenPlacements: the commit of placement idx and the recursive call
PlaceNext ==
  /\ pc = "search"
  /\ stack # <<>>
  /\ Top(stack).at = "loop"
  /\ LET f == Top(stack)
     IN IF f.idx > Len(f.plist) \/ cancelled
        THEN /\ stack' = Pop(stack)
             /\ UNCHANGED <<grid, currentPlacements, currentIntersections>>
        ELSE LET p == f.plist[f.idx]
                 pw == placeWord(f.chosen.word, p, grid)
                 g == [f EXCEPT !.at = "back", !.newly = pw.newly]
             IN /\ grid' = pw.grid
                /\ currentPlacements' = MapSet(currentPlacements, f.chosen.id,
                     [id |-> f.chosen.id, word |-> f.chosen.word, row |-> p.row,
                      col |-> p.col, dir |-> p.dir, score |-> p.score])
                /\ currentIntersections' = currentIntersections + p.score
                /\ stack' = IF countsWithinLimits(pw.grid, cleanWords)
                            THEN Append(SetTop(stack, g), SearchFrame(f.rest))
                            ELSE SetTop(stack, g)
  /\ UNCHANGED <<callVars, posted, pc, result, rng, normVars, iterations, cancelled, best,
                 bestPartial, fillVars, progress, freeVars, histVars>>

\* variant: the score of the undone placement is not taken back
Backtrack_KeepScore ==
  /\ pc = "search"
  /\ stack # <<>>
  /\ Top(stack).at = "back"
  /\ LET f == Top(stack)
     IN /\ currentPlacements' = MapDelete(currentPlacements, f.chosen.id)
        /\ grid' = undo(f.newly, grid)
        /\ stack' = IF cancelled
                    THEN Pop(stack)
                    ELSE SetTop(stack, [f EXCEPT !.at = "loop", !.idx = f.idx + 1, !.newly = <<>>])
  /\ UNCHANGED <<callVars, posted, pc, result, rng, normVars, currentIntersections,
                 iterations, cancelled, best, bestPartial, fillVars, progress, freeVars,
                 histVars>>

\* the loop over chosenPlacements: the statements after the recursive call
Backtrack ==
  /\ pc = "search"
  /\ stack # <<>>
  /\ Top(stack).at = "back"
  /\ LET f == Top(stack)
         p == f.plist[f.idx]
     IN /\ currentIntersections' = currentIntersections - p.score
        /\ currentPlacements' = MapDelete(currentPlacements, f.chosen.id)
        /\ grid' = undo(f.newly, grid)
        /\ stack' = IF cancelled
                    THEN Pop(stack)
                    ELSE SetTop(stack, [f EXCEPT !.at = "loop", !.idx = f.idx + 1, !.newly = <<>>])
  /\ UNCHANGED <<callVars, posted, pc, result, rng, normVars, iterations, cancelled, best,
                 bestPartial, fillVars, progress, freeVars, histVars>>

(***************************************************************************)
(* generateWordSearchGrid: after search(wordObjs) returned.                *)
(***************************************************************************)
Output(p) == [word |-> p.word, row |-> p.row, col |-> p.col, dir |-> p.dir]

\* best.placementsById.get(id)
MapGet(m, id) == m[CHOOSE i \in 1..Len(m) : m[i].id = id]

\* variant: a cancelled search returns the best partial state
Finish_PartialWhenCancelled ==
  /\ pc = "search"
  /\ stack = <<>>
  /\ pc' = "done"
  /\ progress' = Append(progress, <<1, 1>>)
  /\ result' =
       IF best # <<>> /\ ~cancelled
       THEN <<Returned(best[1].filledGridRows,
                [i \in 1..Len(wordObjs) |-> Output(MapGet(best[1].placementsById, wordObjs[i].id))],
                "false")>>
       ELSE <<Returned(bestPartial[1].filledGridRows,
                [i \in 1..Len(bestPartial[1].placementsById) |->
                   Output(bestPartial[1].placementsById[i])],
                "true")>>
  /\ posted' = Post(FinishMessages(result'[1]))
  /\ UNCHANGED <<callVars, rng, normVars, searchVars, fillVars, freeVars, histVars>>

Finish ==
  /\ pc = "search"
  /\ stack = <<>>
  /\ pc' = "done"
  /\ progress' = Append(progress, <<1, 1>>)
  /\ result' =
       IF best # <<>>
       THEN <<Returned(best[1].filledGridRows,
                [i \in 1..Len(wordObjs) |-> Output(MapGet(best[1].placementsById, wordObjs[i].id))],
                "false")>>
       ELSE IF bestPartial # <<>>
       THEN <<Returned(bestPartial[1].filledGridRows,
                [i \in 1..Len(bestPartial[1].placementsById) |->
                   Output(bestPartial[1].placementsById[i])],
                "true")>>
       ELSE IF cancelled
       THEN <<Thrown("Unable to generate a valid grid within maxIterations iterations.")>>
       ELSE <<Thrown("Unable to generate a valid grid under the exactly-once constraint.")>>
  /\ posted' = Post(FinishMessages(result'[1]))
  /\ UNCHANGED <<callVars, rng, normVars, searchVars, fillVars, freeVars, histVars>>

\* the same call again, with the same arguments (calls with an explicit seed)
CallAgain ==
  /\ pc = "done"
  /\ callNo = 1
  /\ strategy = "intersecting"
  /\ input.seed # NoSeed
  /\ callNo' = 2
  /\ firstResult' = result
  /\ result' = <<>>
  /\ pc' = "call"
  /\ rng' = NoSeed
  /\ cleanWords' = <<>>
  /\ allowed' = <<>>
  /\ wordObjs' = <<>>
  /\ grid' = <<>>
  /\ currentPlacements' = <<>>
  /\ currentIntersections' = 0
  /\ iterations' = 0
  /\ cancelled' = FALSE
  /\ best' = <<>>
  /\ bestPartial' = <<>>
  /\ stack' = <<>>
  /\ fillStack' = <<>>
  /\ empties' = <<>>
  /\ currentCounts' = <<>>
  /\ progress' = <<>>
  /\ searchCalls' = 0
  /\ workCalls' = 0
  /\ UNCHANGED <<strategy, input, ctl, freeVars, posted>>

(***************************************************************************)
(* generateFreeWordSearchGrid.                                             *)
(***************************************************************************)
\* variant: the words are taken in the order of the input
SortByLength_Unsorted(ws) == ws

\* cleanWords.slice().sort((a, b) => b.length - a.length)
SortByLength(ws) == StableSortByKey(ws, [i \in 1..Len(ws) |-> 0 - Len(ws[i])])

\* variant: a covered cell may also hold the matching letter of the word
FreePossible_Overlap(word, g, w, h) ==
  LET L == Len(word)
      nh == IF w - L + 1 > 0 THEN h * (w - L + 1) ELSE 0
      nv == IF h - L + 1 > 0 THEN (h - L + 1) * w ELSE 0
      hs == [i \in 1..nh |-> [row |-> (i - 1) \div (w - L + 1), col |-> (i - 1) % (w - L + 1), dir |-> "H"]]
      vs == [i \in 1..nv |-> [row |-> (i - 1) \div w, col |-> (i - 1) % w, dir |-> "V"]]
      fits(p) == \A k \in 0..(L - 1) :
                   Cell(g, CoveredCell(p, k).r, CoveredCell(p, k).c) \in {NULL, word[k + 1]}
  IN SelectSeq(hs \o vs, fits)

\* the start positions of the Free generator: every covered cell is null
FreePossible(word, g, w, h) ==
  LET L == Len(word)
      nh == IF w - L + 1 > 0 THEN h * (w - L + 1) ELSE 0
      nv == IF h - L + 1 > 0 THEN (h - L + 1) * w ELSE 0
      hs == [i \in 1..nh |-> [row |-> (i - 1) \div (w - L + 1), col |-> (i - 1) % (w - L + 1), dir |-> "H"]]
      vs == [i \in 1..nv |-> [row |-> (i - 1) \div w, col |-> (i - 1) % w, dir |-> "V"]]
      free(p) == \A k \in 0..(L - 1) : Cell(g, CoveredCell(p, k).r, CoveredCell(p, k).c) = NULL
  IN SelectSeq(hs \o vs, free)

\* the letters of word written over the cells of the chosen position
RECURSIVE WriteFrom(_, _, _, _)
WriteFrom(word, p, k, g) ==
  IF k = Len(word) THEN g
  ELSE WriteFrom(word, p, k + 1, SetCell(g, CoveredCell(p, k).r, CoveredCell(p, k).c, word[k + 1]))

FreeStart ==
  /\ pc = "call"
  /\ strategy = "free"
  /\ LET cw == CleanWords(input.words)
         al == normalizeAndExpandLetters(input.letters, cw)
     IN IF ~WordsIsArray
        THEN /\ result' = <<Thrown("words must be an array")>>
             /\ pc' = "done"
             /\ UNCHANGED <<cleanWords, allowed, grid, wordsSorted>>
        ELSE IF ~LettersIsArray
        THEN /\ result' = <<Thrown("letters must be an array")>>
             /\ pc' = "done"
             /\ UNCHANGED <<cleanWords, allowed, grid, wordsSorted>>
        ELSE IF ~ValidDims(width, height)
        THEN /\ result' = <<Thrown("width and height must be positive integers.")>>
             /\ pc' = "done"
             /\ UNCHANGED <<cleanWords, allowed, grid, wordsSorted>>
        ELSE IF al = <<>>
        THEN /\ result' = <<Thrown("No letters available to fill the grid.")>>
             /\ pc' = "done"
             /\ UNCHANGED <<cleanWords, allowed, grid, wordsSorted>>
        ELSE /\ cleanWords' = cw
             /\ allowed' = al
             /\ grid' = EmptyGrid(width, height)
             /\ wordsSorted' = SortByLength(cw)
             /\ pc' = "place"
             /\ UNCHANGED result
  /\ UNCHANGED <<callVars, posted, rng, wordObjs, currentPlacements, currentIntersections,
                 iterations, cancelled, best, bestPartial, stack, fillVars, progress,
                 placements, placed, histVars>>

\* one iteration of the loop over wordsSorted, or its end
FreePlaceWord ==
  /\ pc = "place"
  /\ IF placed = Len(wordsSorted)
     THEN /\ pc' = "fill"
          /\ UNCHANGED <<grid, placements, placed, progress>>
     ELSE LET word == wordsSorted[placed + 1]
              possible == FreePossible(word, grid, width, height)
          IN IF possible = <<>>
             THEN /\ pc' = "fill"
                  /\ UNCHANGED <<grid, placements, placed, progress>>
             ELSE \E i \in 1..Len(possible) :
                    /\ grid' = WriteFrom(word, possible[i], 0, grid)
                    /\ placements' = Append(placements,
                         [word |-> word, row |-> possible[i].row, col |-> possible[i].col,
                          dir |-> possible[i].dir])
                    /\ placed' = placed + 1
                    /\ progress' = Append(progress, <<placed + 1, Len(wordsSorted)>>)
                    /\ UNCHANGED pc
  /\ UNCHANGED <<callVars, posted, result, rng, normVars, wordsSorted, currentPlacements,
                 currentIntersections, iterations, cancelled, best, bestPartial, stack,
                 fillVars, histVars>>

\* variant: the result is never marked partial
FreePartial_Never == "false"

\* partial: placed < wordsSorted.length
FreePartial == IF placed < Len(wordsSorted) THEN "true" ELSE "false"

\* the fill of the untouched cells and the return
FreeFill ==
  /\ pc = "fill"
  /\ \E o \in FillNulls(grid, allowed, NoSeed) :
       /\ grid' = o.rows
       /\ result' = <<Returned(o.rows, placements, FreePartial)>>
  /\ progress' = Append(progress, <<1, 1>>)
  /\ pc' = "done"
  /\ UNCHANGED <<callVars, posted, rng, normVars, freeVars, currentPlacements,
                 currentIntersections, iterations, cancelled, best, bestPartial, stack,
                 fillVars, histVars>>

Next ==
  \/ WorkerOnMessage
  \/ GenerateStart
  \/ SearchEnter
  \/ SearchTerminal
  \/ TryFillEnter
  \/ TryFillLetter
  \/ TryFillUndo
  \/ RecordBest
  \/ ChooseWord
  \/ PlaceNext
  \/ Backtrack
  \/ Finish
  \/ CallAgain
  \/ FreeStart
  \/ FreePlaceWord
  \/ FreeFill

Spec == Init /\ [][Next]_vars

(***************************************************************************)
(* The Intersecting generator alone, called with an explicit seed: the     *)
(* calls of the small grids and the worked example of the documentation,   *)
(* words CAT and DOG on a 3 x 3 grid with no letters and default options.  *)
(***************************************************************************)
\* explicit numeric seeds of the worked example are 0..MaxExampleSeed
MaxExampleSeed == 3

ExampleCalls ==
  {[words |-> << <<"C", "A", "T">>, <<"D", "O", "G">> >>, letters |-> <<>>,
    width |-> 3, height |-> 3, seed |-> sd, tieBreaker |-> tb,
    maxIterations |-> Absent,
    wordsIsArray |-> TRUE, lettersIsArray |-> TRUE,
    widthIsInteger |-> TRUE, heightIsInteger |-> TRUE,
    caller |-> "direct", encoding |-> "none"] :
     sd \in 0..MaxExampleSeed, tb \in {"random", "center"}}

SeededInit ==
  /\ strategy = "intersecting"
  /\ input \in ExampleCalls \cup {x \in ShapedInputs("intersecting") : x.seed # NoSeed}
  /\ pc = "call"
  /\ ctl = <<>>
  /\ BeforeCall

NextIntersecting ==
  \/ GenerateStart
  \/ SearchEnter
  \/ SearchTerminal
  \/ TryFillEnter
  \/ TryFillLetter
  \/ TryFillUndo
  \/ RecordBest
  \/ ChooseWord
  \/ PlaceNext
  \/ Backtrack
  \/ Finish
  \/ CallAgain

SpecSeeded == SeededInit /\ [][NextIntersecting]_vars

(***************************************************************************)
(* The word-search controller (src/src/hooks/usePreviewBounds.js,          *)
(* useWordSearchController): the generation settings, the grid shown, and  *)
(* one generation worker with the messages it has posted and that the      *)
(* controller has not handled yet.  The words field holds the words of the *)
(* text box as split by handleGenerate; a grid is kept as the request it   *)
(* was computed from.                                                      *)
(***************************************************************************)
\* values of the settings the user can switch between
CtlWords == {<<>>, << <<"A", "B">> >>, << <<"A", "B", "C">> >>}
CtlLetters == {"", "C"}
CtlDims == {2, 3}

\* createGenerationState(language), on the model's values
DefaultGeneration ==
  [words |-> << <<"A", "B">> >>, letters |-> "", width |-> 3, height |-> 3, encoding |-> "free"]

\* the payloads of UPDATE_GENERATION: one field with a new value
GenerationChanges ==
  {[key |-> "words", value |-> v] : v \in CtlWords}
  \cup {[key |-> "letters", value |-> v] : v \in CtlLetters}
  \cup {[key |-> "width", value |-> v] : v \in CtlDims}
  \cup {[key |-> "height", value |-> v] : v \in CtlDims}
  \cup {[key |-> "encoding", value |-> v] : v \in Encodings}

\* wordSearchReducer, UPDATE_GENERATION: { ...state.generation, ...payload }
UpdateGeneration(g, ch) ==
  CASE ch.key = "words" -> [g EXCEPT !.words = ch.value]
    [] ch.key = "letters" -> [g EXCEPT !.letters = ch.value]
    [] ch.key = "width" -> [g EXCEPT !.width = ch.value]
    [] ch.key = "height" -> [g EXCEPT !.height = ch.value]
    [] OTHER -> [g EXCEPT !.encoding = ch.value]

\* what a grid is generated from: the words, letters, width and height
GridInputs(g) == [words |-> g.words, letters |-> g.letters, width |-> g.width, height |-> g.height]

\* the state after the hook's first render
ControllerStart ==
  [generation |-> DefaultGeneration, isGenerating |-> FALSE, gridStatus |-> "preview",
   gridData |-> <<>>, worker |-> <<>>, inbox |-> <<>>]

\* invalidateGrid({ refreshPreview }) applied to controller state c
invalidateGrid(c, refreshPreview) ==
  LET shouldReset == c.gridStatus # "preview" \/ refreshPreview
  IN [c EXCEPT !.gridData = IF shouldReset THEN <<>> ELSE c.gridData,
               !.gridStatus = "preview"]

\* worker.terminate(); workerRef.current = null: messages not yet handled are dropped
Terminate(c) == [c EXCEPT !.worker = <<>>, !.inbox = <<>>]

otherVars == <<strategy, input, pc, callNo, firstResult, result, rng, cleanWords, allowed,
               wordObjs, grid, currentPlacements, currentIntersections, iterations, cancelled,
               best, bestPartial, stack, fillStack, empties, currentCounts, progress,
               wordsSorted, placements, placed, searchCalls, workCalls, posted>>

ControllerInit ==
  /\ strategy = "none"
  /\ input = <<>>
  /\ pc = "controller"
  /\ ctl = ControllerStart
  /\ BeforeCall

\* handleGenerationSettingsChange(changes)
HandleGenerationSettingsChange ==
  /\ pc = "controller"
  /\ \E ch \in GenerationChanges :
       /\ UpdateGeneration(ctl.generation, ch) # ctl.generation
       /\ ctl' = invalidateGrid([ctl EXCEPT !.generation = UpdateGeneration(ctl.generation, ch)],
                                ch.key \in {"width", "height"})
  /\ UNCHANGED otherVars

\* handleGenerate(): the guards, the too-long check, the worker and its request
HandleGenerate ==
  /\ pc = "controller"
  /\ ~(ctl.isGenerating \/ ctl.worker # <<>>)
  /\ ctl.generation.words # <<>>
  /\ LET g == ctl.generation
         tooLong == \E i \in 1..Len(g.words) :
                      Len(g.words[i]) > g.width \/ Len(g.words[i]) > g.height
     IN ctl' = IF tooLong
               THEN [ctl EXCEPT !.isGenerating = FALSE, !.gridStatus = "preview"]
               ELSE [ctl EXCEPT !.isGenerating = TRUE, !.gridStatus = "generating",
                                !.worker = <<[request |-> GridInputs(g), stage |-> "running"]>>]
  /\ UNCHANGED otherVars

\* the worker: onProgress posts a 'progress' message
WorkerProgress ==
  /\ pc = "controller"
  /\ ctl.worker # <<>>
  /\ ctl.worker[1].stage = "running"
  /\ ctl' = [ctl EXCEPT !.worker[1].stage = "reported",
                        !.inbox = Append(ctl.inbox, [type |-> "progress", from |-> ctl.worker[1].request])]
  /\ UNCHANGED otherVars

\* the worker: the call has returned and 'result' is posted, or it threw (the
\* longest word exceeds max(width, height)) and 'error' is posted
WorkerDone ==
  /\ pc = "controller"
  /\ ctl.worker # <<>>
  /\ ctl.worker[1].stage = "reported"
  /\ LET req == ctl.worker[1].request
         kind == IF MaxLength(req.words) > Max(req.width, req.height) THEN "error" ELSE "result"
     IN ctl' = [ctl EXCEPT !.worker[1].stage = "finished",
                           !.inbox = Append(ctl.inbox, [type |-> kind, from |-> req])]
  /\ UNCHANGED otherVars

\* worker.onmessage: the first message not yet handled
WorkerMessage ==
  /\ pc = "controller"
  /\ ctl.inbox # <<>>
  /\ LET msg == Head(ctl.inbox)
         rest == [ctl EXCEPT !.inbox = Tail(ctl.inbox)]
     IN ctl' = CASE msg.type = "progress" -> rest
                 [] msg.type = "result" ->
                      Terminate([rest EXCEPT !.gridData = <<msg.from>>,
                                             !.gridStatus = "generated",
                                             !.isGenerating = FALSE])
                 [] OTHER ->
                      Terminate([rest EXCEPT !.isGenerating = FALSE,
                                             !.gridStatus = "preview",
                                             !.gridData = <<>>])
  /\ UNCHANGED otherVars

\* handleReset()
HandleReset ==
  /\ pc = "controller"
  /\ ctl # ControllerStart
  /\ ctl' = Terminate([ctl EXCEPT !.generation = DefaultGeneration,
                                  !.isGenerating = FALSE,
                                  !.gridStatus = "preview",
                                  !.gridData = <<>>])
  /\ UNCHANGED otherVars

NextController ==
  \/ HandleGenerationSettingsChange
  \/ HandleGenerate
  \/ WorkerProgress
  \/ WorkerDone
  \/ WorkerMessage
  \/ HandleReset

SpecController == ControllerInit /\ [][NextController]_vars

(***************************************************************************)
(* The normalization alone: cleanWords and the allowed letter set of a     *)
(* call, for letters arrays with entries of any length.                    *)
(***************************************************************************)
\* entries of a letters array: '' (also String(null ?? '')), one character, two
LetterEntries == {<<>>, <<"c">>, <<"B">>, <<"a", "b">>}

LetterArrays == UNION {[1..n -> LetterEntries] : n \in 0..MaxWords}

NormalizeInit ==
  /\ strategy = "normalize"
  /\ input \in {[words |-> ws, letters |-> ls, width |-> 1, height |-> 1,
                 seed |-> NoSeed, tieBreaker |-> "random", maxIterations |-> Absent,
                 wordsIsArray |-> TRUE, lettersIsArray |-> TRUE,
                 widthIsInteger |-> TRUE, heightIsInteger |-> TRUE,
                 caller |-> "direct", encoding |-> "none"] :
                  ws \in WordLists, ls \in LetterArrays}
  /\ pc = "call"
  /\ ctl = <<>>
  /\ BeforeCall

\* cleanWords and allowed as both generators compute them
Normalize ==
  /\ pc = "call"
  /\ strategy = "normalize"
  /\ cleanWords' = CleanWords(input.words)
  /\ allowed' = normalizeAndExpandLetters(input.letters, CleanWords(input.words))
  /\ pc' = "done"
  /\ UNCHANGED <<callVars, posted, result, rng, wordObjs, searchVars, fillVars, progress,
                 freeVars, histVars>>

SpecNormalize == NormalizeInit /\ [][Normalize]_vars

(***************************************************************************)
(* Properties.                                                             *)
(***************************************************************************)
Done == pc = "done" /\ result # <<>>
Res == result[1]
IntersectingReturned == Done /\ strategy = "intersecting" /\ Res.kind = "return"

\* the normalized words of the call, from the arguments
NormalizedWords ==
  LET nonEmpty(w) == w # <<>>
  IN SelectSeq([i \in 1..Len(input.words) |-> ToUpper(Trim(input.words[i]))], nonEmpty)

\* the forward occurrences of word found by scanning the rows of g left to right
\* and, for a word of more than one letter, its columns top to bottom
ForwardOccurrences(g, word) ==
  LET L == Len(word)
      h == Len(g)
      w == Len(g[1])
      reads(r, c, dr, dc) ==
        \A k \in 1..L :
          /\ r + (k - 1) * dr \in 1..h
          /\ c + (k - 1) * dc \in 1..w
          /\ g[r + (k - 1) * dr][c + (k - 1) * dc] = word[k]
  IN {x \in (1..h) \X (1..w) \X {"H", "V"} :
        \/ x[3] = "H" /\ reads(x[1], x[2], 0, 1)
        \/ x[3] = "V" /\ L > 1 /\ reads(x[1], x[2], 1, 0)}

Multiplicity(ws, word) == Cardinality({i \in 1..Len(ws) : ws[i] = word})

\* C1: a result of the Intersecting generator with partial = false holds, for every
\* unique normalized word, exactly as many forward occurrences (rows left to right,
\* columns top to bottom for words longer than one letter) as the word's
\* multiplicity in the input list.
C1_ExactOccurrences ==
  (IntersectingReturned /\ Res.partial = "false") =>
    \A i \in 1..Len(NormalizedWords) :
      Cardinality(ForwardOccurrences(Res.grid, NormalizedWords[i]))
        = Multiplicity(NormalizedWords, NormalizedWords[i])

\* a complete result for a word given twice, on a grid with cells the fill had to fill
C1_Witness ==
  /\ IntersectingReturned
  /\ Res.partial = "false"
  /\ Len(NormalizedWords) = 2
  /\ NormalizedWords[1] = NormalizedWords[2]
  /\ width * height > 2
  /\ Cardinality(ForwardOccurrences(Res.grid, NormalizedWords[1])) = 2

\* the effective allowed letters of the call, from the arguments
EffectiveAllowed ==
  {ToUpperChar(input.letters[i][1]) : i \in {j \in 1..Len(input.letters) : Len(input.letters[j]) = 1}}
  \cup UNION {SeqToSet(NormalizedWords[i]) : i \in 1..Len(NormalizedWords)}

\* C2: every grid returned by either generator (complete, partial, no words) has
\* height rows of width cells, no cell empty, every cell an effective allowed letter.
C2_GridShape ==
  (Done /\ Res.kind = "return") =>
    /\ Len(Res.grid) = height
    /\ \A r \in 1..Len(Res.grid) :
         /\ Len(Res.grid[r]) = width
         /\ \A c \in 1..Len(Res.grid[r]) :
              Res.grid[r][c] # NULL /\ Res.grid[r][c] \in EffectiveAllowed

\* the cells a returned placement covers, 1-based
Covered(p) ==
  {<<p.row + 1 + (IF p.dir = "V" THEN k ELSE 0), p.col + 1 + (IF p.dir = "H" THEN k ELSE 0)>> :
     k \in 0..(Len(p.word) - 1)}

AllCovered(ps) == UNION {Covered(ps[i]) : i \in 1..Len(ps)}

\* a partial result of the Intersecting generator with a cell no placement covers
C2_Witness ==
  /\ IntersectingReturned
  /\ Res.partial = "true"
  /\ Res.placements # <<>>
  /\ \E r \in 1..height, c \in 1..width : <<r, c>> \notin AllCovered(Res.placements)

\* C3: every placement of a result of the Intersecting generator lies inside the
\* grid and its cells, read in its direction, spell its word.
C3_PlacementsSpell ==
  IntersectingReturned =>
    \A i \in 1..Len(Res.placements) :
      LET p == Res.placements[i]
      IN /\ p.dir \in {"H", "V"}
         /\ p.row >= 0 /\ p.col >= 0
         /\ \A k \in 0..(Len(p.word) - 1) :
              LET r == p.row + 1 + (IF p.dir = "V" THEN k ELSE 0)
                  c == p.col + 1 + (IF p.dir = "H" THEN k ELSE 0)
              IN r <= height /\ c <= width /\ Res.grid[r][c] = p.word[k + 1]

\* a partial result with two placements that share a cell
C3_Witness ==
  /\ IntersectingReturned
  /\ Res.partial = "true"
  /\ Len(Res.placements) = 2
  /\ Covered(Res.placements[1]) \cap Covered(Res.placements[2]) # {}
  /\ Res.placements[1].dir # Res.placements[2].dir

\* C4: the second call with the same explicit seed and the same arguments returns
\* what the first call returned (grid, placements, partial flag, or the error).
C4_SeededDeterminism ==
  (Done /\ callNo = 2) => <<Res>> = firstResult

\* both calls done, a partial result whose filler letter was drawn among several
C4_Witness ==
  /\ Done /\ callNo = 2
  /\ Res.kind = "return" /\ Res.partial = "true"
  /\ Len(allowed) > 1
  /\ input.tieBreaker = "random"
  /\ \E r \in 1..height, c \in 1..width : <<r, c>> \notin AllCovered(Res.placements)

\* C5 (as claimed): a partial result has fewer placements than non-empty input words.
C5_PartialOmitsAWord ==
  (IntersectingReturned /\ Res.partial = "true") =>
    Len(Res.placements) < Len(NormalizedWords)

\* C6 (as claimed): a partial result is returned only when the search was cancelled
\* because the iteration counter exceeded maxIterations.
C6_PartialOnlyWhenCancelled ==
  (IntersectingReturned /\ Res.partial = "true") =>
    (cancelled /\ iterations > maxIterations)

\* C7 (as claimed): a search that ends without a complete solution and without a
\* state in which a word was placed ends with an error, not with a grid.
C7_NothingPlacedThrows ==
  (/\ Done /\ strategy = "intersecting" /\ searchCalls > 0
   /\ best = <<>>
   /\ (bestPartial = <<>> \/ bestPartial[1].placedCount = 0))
  => Res.kind = "throw"

\* the placements hold every input word instance
PlacesEveryWord(ps) ==
  /\ Len(ps) = Len(NormalizedWords)
  /\ \A i \in 1..Len(NormalizedWords) :
       Cardinality({j \in 1..Len(ps) : ps[j].word = NormalizedWords[i]})
         = Multiplicity(NormalizedWords, NormalizedWords[i])

\* C8: once a complete solution is recorded during a call, it stays recorded, and
\* the call returns a complete solution with partial = false that holds every input
\* word instance, also when the budget is exceeded afterwards.
C8_CompleteIsKept ==
  [][(pc = "search" /\ best # <<>>) =>
       /\ best' # <<>>
       /\ pc' = "done" =>
            /\ result'[1].kind = "return"
            /\ result'[1].partial = "false"
            /\ result'[1].grid = best[1].filledGridRows
            /\ PlacesEveryWord(result'[1].placements)]_vars

\* a complete result returned by a call that was cancelled after recording it
C8_Witness ==
  /\ IntersectingReturned
  /\ cancelled
  /\ best # <<>>
  /\ Res.partial = "false"

\* C9 (as claimed): at most maxIterations search calls go past the budget check.
C9_AtMostMaxIterationsWork ==
  strategy = "intersecting" => workCalls <= maxIterations

\* the length of the longest normalized word, from the arguments
LongestNormalized ==
  LET lens == {Len(NormalizedWords[i]) : i \in 1..Len(NormalizedWords)}
  IN IF lens = {} THEN 0 ELSE CHOOSE m \in lens : \A n \in lens : n <= m

\* C10: when the longest normalized word is longer than max(width, height), the
\* Intersecting generator creates no grid, never calls search, reports no progress
\* and ends with an error.
C10_TooLongRaisesFirst ==
  (strategy = "intersecting" /\ LongestNormalized > Max(width, height)) =>
    /\ pc \in {"call", "done"}
    /\ grid = <<>> /\ stack = <<>> /\ best = <<>> /\ bestPartial = <<>>
    /\ searchCalls = 0
    /\ progress = <<>>
    /\ pc = "done" => Res.kind = "throw"

\* the error of a call with valid dimensions and a word longer than both
C10_Witness ==
  /\ Done /\ strategy = "intersecting"
  /\ width > 0 /\ height > 0
  /\ LongestNormalized > Max(width, height)
  /\ Res.kind = "throw"

\* the arguments have the shape both generators require
WellShaped ==
  /\ input.wordsIsArray /\ input.lettersIsArray
  /\ input.widthIsInteger /\ input.heightIsInteger
  /\ input.width > 0 /\ input.height > 0

\* C11: when words or letters is not an array, or width or height is not a positive
\* integer, either generator ends with an error: it creates no grid, places no word,
\* never calls search and never calls onProgress.
C11_MalformedRejected ==
  ~WellShaped =>
    /\ pc \in {"request", "call", "done"}
    /\ grid = <<>> /\ stack = <<>>
    /\ currentPlacements = <<>> /\ placements = <<>> /\ placed = 0
    /\ searchCalls = 0
    /\ progress = <<>>
    /\ pc = "done" => Res.kind = "throw"

\* the error of the Free generator for a width that is not an integer
C11_Witness ==
  /\ Done /\ strategy = "free"
  /\ input.wordsIsArray /\ input.lettersIsArray
  /\ ~input.widthIsInteger /\ input.heightIsInteger
  /\ input.width > 0 /\ input.height > 0
  /\ Res.kind = "throw"

\* C12: when no input word survives normalization, the Intersecting generator never
\* calls search; with a non-empty allowed set it returns a height x width grid of
\* allowed letters with no placements, with an empty allowed set it ends with an error.
C12_NoWords ==
  (strategy = "intersecting" /\ WellShaped /\ NormalizedWords = <<>>) =>
    /\ pc \in {"request", "call", "done"}
    /\ searchCalls = 0 /\ stack = <<>> /\ grid = <<>>
    /\ pc = "done" =>
         IF EffectiveAllowed = {}
         THEN Res.kind = "throw"
         ELSE /\ Res.kind = "return"
              /\ Res.placements = <<>>
              /\ Len(Res.grid) = height
              /\ \A r \in 1..Len(Res.grid) :
                   /\ Len(Res.grid[r]) = width
                   /\ \A c \in 1..Len(Res.grid[r]) : Res.grid[r][c] \in EffectiveAllowed

\* the grid returned for words that all trim to the empty string
C12_Witness ==
  /\ Done /\ strategy = "intersecting"
  /\ input.words # <<>> /\ NormalizedWords = <<>>
  /\ width * height > 1
  /\ Res.kind = "return"
  /\ Res.placements = <<>>

\* C13 (as claimed): the allowed letter set is not empty when the words array or the
\* letters array has at least one entry, whatever the entries are.
C13_NeverEmptyAsStated ==
  (pc = "done" /\ strategy = "normalize" /\ (input.words # <<>> \/ input.letters # <<>>))
    => allowed # <<>>

\* C13 (amended): the allowed letter set is not empty when at least one word is left
\* after normalization or at least one entry of letters is exactly one character.
C13_NeverEmpty ==
  (/\ pc = "done" /\ strategy = "normalize"
   /\ \/ NormalizedWords # <<>>
      \/ \E i \in 1..Len(input.letters) : Len(input.letters[i]) = 1)
    => allowed # <<>>

\* no words, a two-character entry and a one-character entry: the set is {C}
C13_Witness ==
  /\ pc = "done" /\ strategy = "normalize"
  /\ input.words = <<>>
  /\ input.letters = << <<"a", "b">>, <<"c">> >>
  /\ allowed = <<"C">>

\* C14: for well-shaped arguments and a non-empty allowed letter set the Free
\* generator ends with a result, never with an error; when a word is longer than
\* max(width, height) that result has partial = true.
C14_FreeNeverRaises ==
  (Done /\ strategy = "free" /\ WellShaped /\ EffectiveAllowed # {}) =>
    /\ Res.kind = "return"
    /\ LongestNormalized > Max(width, height) => Res.partial = "true"

\* a partial result of the Free generator for a word longer than both dimensions
C14_Witness ==
  /\ Done /\ strategy = "free"
  /\ LongestNormalized > Max(width, height)
  /\ Res.kind = "return"
  /\ Res.partial = "true"

\* the words of ws of length n, then those of length n - 1, ..., in the order of ws
RECURSIVE ByLengthDescending(_, _)
ByLengthDescending(ws, n) ==
  IF n = 0 THEN <<>>
  ELSE LET hasLen(w) == Len(w) = n
       IN SelectSeq(ws, hasLen) \o ByLengthDescending(ws, n - 1)

\* the start positions of word inside g, either direction
PositionsInside(word, g) ==
  {p \in [row : 0..(Len(g) - 1), col : 0..(Len(g[1]) - 1), dir : {"H", "V"}] :
     IF p.dir = "H" THEN p.col + Len(word) <= Len(g[1]) ELSE p.row + Len(word) <= Len(g)}

\* the start positions of word all of whose cells are empty in g
EmptyRuns(word, g) ==
  {p \in PositionsInside(word, g) :
     \A k \in 0..(Len(word) - 1) :
       g[p.row + 1 + (IF p.dir = "V" THEN k ELSE 0)][p.col + 1 + (IF p.dir = "H" THEN k ELSE 0)] = NULL}

\* the start positions of word all of whose cells are empty or hold its letter
EmptyOrMatchingRuns(word, g) ==
  {p \in PositionsInside(word, g) :
     \A k \in 0..(Len(word) - 1) :
       g[p.row + 1 + (IF p.dir = "V" THEN k ELSE 0)][p.col + 1 + (IF p.dir = "H" THEN k ELSE 0)]
         \in {NULL, word[k + 1]}}

\* C15: the Free generator takes the normalized words longest first (equal lengths in
\* input order); a committed placement is never changed; the returned placements are
\* the words before the first word with no position left, in that order, and partial
\* is true exactly when a word was omitted.
C15_FreeStopsAtFirst ==
  [][strategy = "free" =>
       /\ Len(placements') >= Len(placements)
       /\ SubSeq(placements', 1, Len(placements)) = placements
       /\ (pc = "fill" /\ pc' = "done") =>
            LET ps == result'[1].placements
                sorted == ByLengthDescending(NormalizedWords, LongestNormalized)
            IN /\ ps = placements
               /\ Len(ps) <= Len(sorted)
               /\ \A i \in 1..Len(ps) : ps[i].word = sorted[i]
               /\ Len(ps) < Len(sorted) => EmptyRuns(sorted[Len(ps) + 1], grid) = {}
               /\ result'[1].partial = "true" <=> Len(ps) < Len(sorted)]_vars

\* a partial result that holds the longer word and omits the shorter one
C15_Witness ==
  /\ Done /\ strategy = "free"
  /\ Res.kind = "return" /\ Res.partial = "true"
  /\ Len(NormalizedWords) = 2
  /\ Len(NormalizedWords[1]) < Len(NormalizedWords[2])
  /\ Len(Res.placements) = 1
  /\ Res.placements[1].word = NormalizedWords[2]

\* the start positions the Free generator chooses from, as a set
FreeCandidates ==
  LET ps == FreePossible(wordsSorted[placed + 1], grid, width, height)
  IN {[row |-> ps[i].row, col |-> ps[i].col, dir |-> ps[i].dir] : i \in 1..Len(ps)}

\* C16 (as claimed): the candidates of the next word of the Free generator are the
\* start positions whose cells are all empty or already hold the matching letter.
C16_OverlapAllowed ==
  (strategy = "free" /\ pc = "place" /\ placed < Len(wordsSorted)) =>
    FreeCandidates = EmptyOrMatchingRuns(wordsSorted[placed + 1], grid)

\* C16 (amended): the candidates of the next word of the Free generator are the start
\* positions whose cells are all empty, so the words of a result never share a cell.
C16_OnlyEmptyCells ==
  /\ (strategy = "free" /\ pc = "place" /\ placed < Len(wordsSorted)) =>
       FreeCandidates = EmptyRuns(wordsSorted[placed + 1], grid)
  /\ (Done /\ strategy = "free" /\ Res.kind = "return") =>
       \A i, j \in 1..Len(Res.placements) :
         i # j => Covered(Res.placements[i]) \cap Covered(Res.placements[j]) = {}

\* a word is placed and the next word fits only over a letter of it
C16_Witness ==
  /\ strategy = "free" /\ pc = "place"
  /\ placed = 1 /\ Len(wordsSorted) = 2
  /\ EmptyRuns(wordsSorted[2], grid) = {}
  /\ EmptyOrMatchingRuns(wordsSorted[2], grid) # {}

\* C17 (as claimed): the generator that handles a request of the worker is the one
\* its encoding option names: the Free generator for 'free', else the Intersecting.
C17_EncodingSelects ==
  (input.caller = "worker" /\ pc # "request") =>
    (strategy = "free" <=> input.encoding = "free")

\* the message types posted so far
PostedTypes == [i \in 1..Len(posted) |-> posted[i].type]

\* C19: for a request handled by the worker the posted messages are 'progress'
\* messages followed, once the handler has ended, by exactly one terminal message,
\* 'result' for a returned value and 'error' for a thrown one; nothing follows it.
C19_WorkerProtocol ==
  input.caller = "worker" =>
    /\ \A i \in 1..Len(posted) :
         IF i = Len(posted) /\ pc = "done"
         THEN posted[i].type = (IF Res.kind = "return" THEN "result" ELSE "error")
         ELSE posted[i].type = "progress"
    /\ pc = "done" => posted # <<>>

\* a handled request: one progress message, then the result
C19_Witness ==
  /\ input.caller = "worker" /\ Done
  /\ PostedTypes = <<"progress", "result">>

C18_ProgressMonotoneInUnit ==
  (strategy = "intersecting" /\ maxIterations >= 1)
    => \A i \in 1..Len(progress) :
         /\ progress[i][1] >= 0
         /\ progress[i][1] <= progress[i][2]
         /\ i > 1 => progress[i - 1][1] * progress[i][2] <= progress[i][1] * progress[i - 1][2]

\* C21: for words CAT and DOG, no letters, a 3 x 3 grid and the default budget
\* the Intersecting generator returns a complete result (partial = false) whose
\* grid has 3 rows of 3 cells, holds exactly one forward occurrence of CAT and
\* exactly one of DOG and uses only letters of {C, A, T, D, O, G}.
C21_CatDogExample ==
  (Done /\ input \in ExampleCalls) =>
    /\ Res.kind = "return"
    /\ Res.partial = "false"
    /\ Len(Res.grid) = 3
    /\ \A r \in 1..Len(Res.grid) :
         Len(Res.grid[r]) = 3 /\ SeqToSet(Res.grid[r]) \subseteq {"C", "A", "T", "D", "O", "G"}
    /\ Cardinality(ForwardOccurrences(Res.grid, <<"C", "A", "T">>)) = 1
    /\ Cardinality(ForwardOccurrences(Res.grid, <<"D", "O", "G">>)) = 1

\* the example has returned, with CAT read down a column
C21_Witness ==
  /\ Done
  /\ input \in ExampleCalls
  /\ Res.kind = "return"
  /\ \E i \in 1..Len(Res.placements) :
       Res.placements[i].word = <<"C", "A", "T">> /\ Res.placements[i].dir = "V"

\* the innermost active search call and the values it began with
InnerCall == Top(stack)
AtEntry == IF InnerCall.at = "entry" THEN EntryState[1] ELSE InnerCall.entry[1]

\* C22: every call of search returns with the grid, the committed-placement map and
\* the running intersection score equal to their values at the entry of that call,
\* also when the search is cancelled or a fill attempt fails; the undo after a
\* placement clears exactly the cells that placement newly wrote, each of them
\* empty before the placement; when the top-level call returns the grid is empty.
C22_SearchRestores ==
  [][(pc = "search" /\ stack # <<>>) =>
       /\ (Len(stack') < Len(stack)) =>
            /\ grid' = AtEntry.grid
            /\ currentPlacements' = AtEntry.placements
            /\ currentIntersections' = AtEntry.intersections
       /\ (InnerCall.at = "back" /\ stack' # stack) =>
            /\ grid' = AtEntry.grid
            /\ currentPlacements' = AtEntry.placements
            /\ currentIntersections' = AtEntry.intersections
            /\ SeqToSet(InnerCall.newly)
                 = {cl \in [r : 0..(height - 1), c : 0..(width - 1)] :
                      Cell(grid, cl.r, cl.c) # Cell(grid', cl.r, cl.c)}
            /\ \A cl \in SeqToSet(InnerCall.newly) : Cell(grid', cl.r, cl.c) = NULL
       /\ (stack' = <<>>) => grid' = EmptyGrid(width, height)
    ]_vars

\* the search was cancelled inside a call made below a placement that shares a
\* cell with an earlier word, and the calls have all returned
C22_Witness ==
  /\ pc = "search"
  /\ stack = <<>>
  /\ cancelled
  /\ bestPartial # <<>>
  /\ bestPartial[1].intersections > 0
  /\ grid = EmptyGrid(width, height)

\* the number of forward occurrences of word in the working grid exceeds its requirement
OverRequirement(word) ==
  Cardinality(ForwardOccurrences(grid, word)) > Multiplicity(cleanWords, word)

\* C23: at the entry of every search call of the Intersecting generator no unique
\* word has more forward occurrences in the current partial grid (an empty cell
\* breaks a match) than its required count.
C23_EntryWithinLimits ==
  (pc = "search" /\ stack # <<>> /\ InnerCall.at = "entry") =>
    \A i \in 1..Len(cleanWords) : ~OverRequirement(cleanWords[i])

\* a committed placement pushed a word's count over its requirement and the search
\* did not recurse below it
C23_Witness ==
  /\ pc = "search"
  /\ stack # <<>>
  /\ InnerCall.at = "back"
  /\ \E i \in 1..Len(cleanWords) : OverRequirement(cleanWords[i])

\* the start positions at which word fits the working grid: every covered cell is
\* empty or holds the word's letter; columns are read only for longer words
FittingStarts(word) ==
  LET L == Len(word)
      fits(p) == \A k \in 0..(L - 1) :
                   LET cl == CoveredCell(p, k)
                   IN /\ cl.r \in 0..(height - 1)
                      /\ cl.c \in 0..(width - 1)
                      /\ Cell(grid, cl.r, cl.c) \in {NULL, word[k + 1]}
  IN {p \in [row : 0..(height - 1), col : 0..(width - 1), dir : {"H", "V"}] :
        (p.dir = "V" => L > 1) /\ fits(p)}

\* the covered cells of a start position that already hold the word's letter
SharedLetters(word, p) ==
  Cardinality({k \in 0..(Len(word) - 1) :
                 Cell(grid, CoveredCell(p, k).r, CoveredCell(p, k).c) = word[k + 1]})

StartOf(p) == [row |-> p.row, col |-> p.col, dir |-> p.dir]

\* the words the innermost search call enumerates placements for
Enumerating ==
  IF pc = "search" /\ stack # <<>> /\ InnerCall.at = "body"
  THEN {InnerCall.remaining[i].word : i \in 1..Len(InnerCall.remaining)}
  ELSE {}

\* C24: for a word of length L and the current partial grid enumeratePlacements
\* returns each fitting start position exactly once and nothing else (horizontal
\* starts, and vertical starts only when L > 1), each with a score equal to the
\* number of covered cells that already hold the word's letter, ordered by
\* non-increasing score.
C24_EnumeratesValid ==
  \A word \in Enumerating :
    \A o \in enumeratePlacements(word, grid, tieMode, rng) :
      /\ {StartOf(o.plist[i]) : i \in 1..Len(o.plist)} = FittingStarts(word)
      /\ Len(o.plist) = Cardinality(FittingStarts(word))
      /\ \A i \in 1..Len(o.plist) : o.plist[i].score = SharedLetters(word, o.plist[i])
      /\ \A i \in 1..(Len(o.plist) - 1) : o.plist[i].score >= o.plist[i + 1].score

\* a two-letter word enumerated on a grid where a start is blocked by another
\* letter and a fitting start shares a letter already placed
C24_Witness ==
  \E word \in Enumerating :
    /\ Len(word) = 2
    /\ \E p \in FittingStarts(word) : SharedLetters(word, p) > 0
    /\ \E p \in FittingStarts(word) : SharedLetters(word, p) = 0
    /\ \E p \in [row : 0..(height - 1), col : 0..(width - 1), dir : {"H", "V"}] :
         /\ p \notin FittingStarts(word)
         /\ \A k \in 0..1 : CoveredCell(p, k).r < height /\ CoveredCell(p, k).c < width

\* the fill of the empty cells is running, or has just succeeded
Filling ==
  /\ pc = "search"
  /\ stack # <<>>
  /\ \/ fillStack # <<>>
     \/ InnerCall.at = "record" /\ empties # <<>>

\* C25: during the fill of the empty cells, after every commit and every undo of a
\* filler letter, the incrementally maintained count of each unique word equals
\* the number of its forward occurrences found by rescanning the grid, and no
\* count exceeds the word's required count.
C25_CountsMatchRescan ==
  Filling =>
    LET uniq == UniqueWords(cleanWords)
    IN /\ Len(currentCounts) = Len(uniq)
       /\ \A i \in 1..Len(uniq) :
            /\ currentCounts[i] = Cardinality(ForwardOccurrences(grid, uniq[i]))
            /\ currentCounts[i] <= Multiplicity(cleanWords, uniq[i])

\* a filler letter is committed in one cell and, in a later empty cell, the first
\* letter of the order has been passed over or undone
C25_Witness ==
  /\ Filling
  /\ Len(fillStack) >= 2
  /\ Top(fillStack).at = "loop"
  /\ Top(fillStack).li >= 2
  /\ Cell(grid, empties[1].r, empties[1].c) # NULL
  /\ Cell(grid, empties[Top(fillStack).idx + 1].r, empties[Top(fillStack).idx + 1].c) = NULL

\* C26: the recorded complete solution has a score at least as high as every
\* complete solution the search reaches, and it is the one returned; reaching a
\* solution does not stop the search: the call returns to its caller, and a loop
\* over the candidate placements of a chosen word ends only when every candidate
\* was tried or the search was cancelled.
C26_BestIsMaximal ==
  [][(pc = "search") =>
       /\ (stack # <<>> /\ InnerCall.at = "record") =>
            /\ best' # <<>>
            /\ best'[1].intersections >= currentIntersections
            /\ best # <<>> => best'[1].intersections >= best[1].intersections
            /\ pc' = "search"
            /\ stack' = Pop(stack)
       /\ (stack # <<>> /\ InnerCall.at # "record") => best' = best
       /\ (stack # <<>> /\ InnerCall.at = "loop" /\ Len(stack') < Len(stack)) =>
            cancelled \/ InnerCall.idx > Len(InnerCall.plist)
       /\ (stack # <<>> /\ InnerCall.at = "back" /\ stack' # stack) =>
            \/ cancelled
            \/ /\ Len(stack') = Len(stack)
               /\ Top(stack').at = "loop"
               /\ Top(stack').idx = InnerCall.idx + 1
       /\ (stack = <<>> /\ best # <<>> /\ pc' = "done") =>
            /\ result'[1].kind = "return"
            /\ result'[1].partial = "false"
            /\ result'[1].grid = best[1].filledGridRows
    ]_vars

\* a second complete solution is reached whose score is below the recorded one
C26_Witness ==
  /\ pc = "search"
  /\ stack # <<>>
  /\ InnerCall.at = "record"
  /\ best # <<>>
  /\ currentIntersections < best[1].intersections

\* record a is at least record b: more placed words, or as many and no lower a score
AtLeast(aCount, aScore, bCount, bScore) ==
  aCount > bCount \/ (aCount = bCount /\ aScore >= bScore)

\* rows is the working grid with each empty cell replaced by an allowed letter
FilledFromGrid(rows) ==
  /\ Len(rows) = height
  /\ \A r \in 1..height :
       /\ Len(rows[r]) = width
       /\ \A c \in 1..width :
            IF grid[r][c] = NULL THEN rows[r][c] \in SeqToSet(allowed)
            ELSE rows[r][c] = grid[r][c]

\* C27: the best partial state is replaced only at the entry of a search call, by
\* the state observed there (its placements, its score, its grid with each empty
\* cell replaced by an allowed letter); it is at least every state observed, first
\* by the number of placed words and then by the intersection score; a partial
\* result returns its placements and its grid.
C27_PartialIsBestObserved ==
  [][(pc = "search") =>
       /\ (stack # <<>> /\ InnerCall.at = "entry" /\ ~cancelled) =>
            /\ bestPartial' # <<>>
            /\ AtLeast(bestPartial'[1].placedCount, bestPartial'[1].intersections,
                       Len(currentPlacements), currentIntersections)
            /\ bestPartial # <<>> =>
                 AtLeast(bestPartial'[1].placedCount, bestPartial'[1].intersections,
                         bestPartial[1].placedCount, bestPartial[1].intersections)
            /\ \/ bestPartial' = bestPartial
               \/ /\ bestPartial'[1].placementsById = currentPlacements
                  /\ bestPartial'[1].placedCount = Len(currentPlacements)
                  /\ bestPartial'[1].intersections = currentIntersections
                  /\ FilledFromGrid(bestPartial'[1].filledGridRows)
       /\ ~(stack # <<>> /\ InnerCall.at = "entry" /\ ~cancelled) => bestPartial' = bestPartial
       /\ (stack = <<>> /\ best = <<>> /\ pc' = "done") =>
            /\ result'[1].kind = "return"
            /\ result'[1].partial = "true"
            /\ result'[1].grid = bestPartial[1].filledGridRows
            /\ result'[1].placements =
                 [i \in 1..Len(bestPartial[1].placementsById) |->
                    [word |-> bestPartial[1].placementsById[i].word,
                     row |-> bestPartial[1].placementsById[i].row,
                     col |-> bestPartial[1].placementsById[i].col,
                     dir |-> bestPartial[1].placementsById[i].dir]]
    ]_vars

\* a partial result whose recorded state has placed words that share a cell and
\* a cell no placement covers
C27_Witness ==
  /\ IntersectingReturned
  /\ Res.partial = "true"
  /\ bestPartial # <<>>
  /\ bestPartial[1].placedCount >= 2
  /\ bestPartial[1].intersections >= 1
  /\ \E r \in 1..height, c \in 1..width : <<r, c>> \notin AllCovered(Res.placements)

\* the currently placed words that cover the cell in row r, column c (1-based)
Coverers(r, c) ==
  {i \in 1..Len(currentPlacements) : <<r, c>> \in Covered(currentPlacements[i])}

\* the cells shared between two or more of the currently placed words
SharedCells ==
  {rc \in (1..height) \X (1..width) : Cardinality(Coverers(rc[1], rc[2])) >= 2}

\* over the cells, the number of placed words covering the cell beyond the first
RECURSIVE OverlapsFrom(_)
OverlapsFrom(k) ==
  IF k > width * height THEN 0
  ELSE LET n == Cardinality(Coverers(((k - 1) \div width) + 1, ((k - 1) % width) + 1))
       IN (IF n >= 2 THEN n - 1 ELSE 0) + OverlapsFrom(k + 1)

\* C28 as stated: in every state of the Intersecting search the running
\* intersection score equals the number of grid cells shared between two or more
\* of the currently placed words, also when three or more placed words cover the
\* same cell.
C28_ScoreIsSharedCells ==
  (pc = "search") => currentIntersections = Cardinality(SharedCells)

\* C28, amended: the running intersection score is the sum of the scores of the
\* committed placements: over the grid cells, the number of placed words that
\* cover the cell beyond the first.  It equals the number of shared cells as long
\* as no cell is covered by three or more placed words.
C28_ScoreCountsOverlaps ==
  (pc = "search") =>
    /\ currentIntersections = OverlapsFrom(1)
    /\ (\A rc \in SharedCells : Cardinality(Coverers(rc[1], rc[2])) = 2)
         => currentIntersections = Cardinality(SharedCells)

\* three placed words cover one cell
C28_Witness ==
  /\ pc = "search"
  /\ \E rc \in SharedCells : Cardinality(Coverers(rc[1], rc[2])) >= 3
  /\ currentIntersections > Cardinality(SharedCells)

\* C29: in a complete result of the Intersecting generator (partial = false) two
\* input word instances with the same text are never assigned the same placement
\* (same row, column and direction).  The search lets a copy take the placement
\* of an earlier copy whenever the grid's counts stay within the requirements.
C29_DistinctPlacements ==
  (IntersectingReturned /\ Res.partial = "false") =>
    \A i, j \in 1..Len(Res.placements) :
      (i < j /\ Res.placements[i].word = Res.placements[j].word)
        => Res.placements[i] # Res.placements[j]

\* C30: whenever the controller shows a generated grid (gridStatus 'generated',
\* gridData set) the grid was produced from the words, letters, width and height
\* the generation settings hold now.  A settings change invalidates the grid but
\* leaves the running worker and its pending result alone.
C30_DisplayedIsCurrent ==
  (pc = "controller" /\ ctl.gridStatus = "generated" /\ ctl.gridData # <<>>) =>
    ctl.gridData[1] = GridInputs(ctl.generation)

=============================================================================
